---- MODULE Spec2Model ----
(***************************************************************************)
(* A model of the upload pipeline of immich-py: the hash ledger            *)
(* (api/asset_hash.py), the per-file upload (api/asset.py) and the path    *)
(* expansion and batch upload (api/upload_utils.py).                       *)
(*                                                                         *)
(* Text is modelled as sequences of one-character strings, so that         *)
(* writing a line, splitting a file into lines, stripping a line and       *)
(* splitting a path into its parts are computed, never assumed.            *)
(***************************************************************************)
EXTENDS Integers, Sequences, FiniteSets, TLC

VARIABLES
    \* the hash ledger, AssetHashDatabase
    lock,        \* _lock: Unlocked, or the thread that holds it
    cache,       \* _hash_cache
    dbText,      \* the content of the backing file, character by character
    dbExists,    \* whether the backing file exists
    \* the threads: callers of the ledger, the caller of process_upload_path
    \* (thread 0) and the tasks of the pool of process_directory (1, 2, ...)
    pc,          \* control point of every thread
    arg,         \* the hash a thread works on
    ret,         \* the last value a thread got back from a call it made
    \* the call of process_upload_path
    input,       \* the path given: its kind, its name, what it holds
    ignoreDb,    \* the ignore_db argument of upload_asset
    uploadFunc,  \* the upload_func argument: "upload_asset", "mock", or "none"
    albumsBefore, \* ProgressManager.album_titles at the moment of the call
    recordOrder, \* whether the history of the order of the tasks is kept
    entry,       \* the function the caller calls
    sidecarPath, \* the sidecar_path argument of upload_assets
    recursive,   \* the --recursive flag of the upload command
    dryRun,      \* dry_run of the client: "yes", "no", or "was" in a call that
                 \* follows a dry run
    echoed,      \* what the upload command has written with click.echo
    kwargs,      \* the keyword arguments process_upload_path is called with
    \* the progress reporter, ProgressManager, and the handles of its users
    reporter,    \* lock, started, the live display, the pool, the tasks
    handle,      \* the ProgressHandle of each thread and what was done with it
    temp,        \* the temporary directory of process_archive
    files,       \* process_directory: the files submitted, in task order
    outcome,     \* what the future of each task holds
    results,     \* process_directory: results
    collected,   \* the tasks whose future as_completed has yielded, in that order
    finishedOrder, \* the tasks that have ended, in the order they ended
    albumTitles, \* ProgressManager.album_titles
    result,      \* what process_upload_path gave its caller
    \* history
    calls,       \* the number of transport uploads made by each thread
    invoked,     \* the number of upload_func calls made in each thread
    raisedIn,    \* the threads in which upload_func raised, with the error
    known,       \* whether the ledger held the hash when upload_asset computed it
    sidecarOf,   \* the sidecar_path each call of upload_asset was given
    addReturned, \* the hashes for which an add_hash call has returned
    recorded,    \* the hashes the instance loaded or was given by a returned add_hash
    fresh        \* no add_hash has changed the ledger since it was constructed

ledgerVars == <<lock, cache, dbText, dbExists, fresh>>
ledgerHistory == <<addReturned, recorded>>
callArgs == <<input, ignoreDb, uploadFunc, albumsBefore, recordOrder, entry, sidecarPath,
              recursive, dryRun>>
callVars == <<callArgs, kwargs>>
reporterVars == <<reporter, handle>>
envVars == <<callVars, reporterVars, echoed>>
batchVars == <<temp, files, results, collected, albumTitles>>
threadHistory == <<calls, invoked, raisedIn, known, sidecarOf>>
vars == <<lock, cache, dbText, dbExists, pc, arg, ret, input, ignoreDb, uploadFunc,
          albumsBefore, recordOrder, entry, reporter, handle, temp, files, outcome, results, collected, finishedOrder,
          albumTitles, result, calls, invoked,
          raisedIn, known, addReturned, recorded, fresh, sidecarPath, kwargs, sidecarOf,
          recursive, echoed, dryRun>>

----------------------------------------------------------------------------
(* Bounds of the model *)

NThreads == 2
MaxInitLines == 1
PoolSize == 2
MaxMembers == 2
MaxTasks == 2

----------------------------------------------------------------------------
(* Text *)

NL == "\n"
Whitespace == {" ", "\t", NL}

\* The fingerprints used: hexadecimal strings, one of them a prefix of another.
Hashes == {<<"a">>, <<"a", "b">>}

\* The position of the first c in s, 0 when there is none.
RECURSIVE IndexFrom(_, _, _)
IndexFrom(s, c, i) ==
    IF i > Len(s) THEN 0
    ELSE IF s[i] = c THEN i
    ELSE IndexFrom(s, c, i + 1)

\* `for line in f`: the lines of a text file, each with its line terminator
\* (the last one has none when the file does not end in a newline).
RECURSIVE SplitLines(_)
SplitLines(text) ==
    IF text = <<>> THEN <<>>
    ELSE LET i == IndexFrom(text, NL, 1)
         IN  IF i = 0 THEN <<text>>
             ELSE <<SubSeq(text, 1, i)>> \o SplitLines(SubSeq(text, i + 1, Len(text)))

RECURSIVE LStrip(_)
LStrip(s) ==
    IF s # <<>> /\ s[1] \in Whitespace THEN LStrip(Tail(s)) ELSE s

RECURSIVE RStrip(_)
RStrip(s) ==
    IF s # <<>> /\ s[Len(s)] \in Whitespace THEN RStrip(SubSeq(s, 1, Len(s) - 1)) ELSE s

\* str.strip()
Strip(s) == RStrip(LStrip(s))

Range(s) == {s[i] : i \in DOMAIN s}

RECURSIVE Flatten(_)
Flatten(ss) == IF ss = <<>> THEN <<>> ELSE Head(ss) \o Flatten(Tail(ss))

----------------------------------------------------------------------------
(* Paths, archives and directory trees *)

\* str.lower() on the characters the model uses.
LowerChar(c) ==
    CASE c = "Z" -> "z"
      [] c = "I" -> "i"
      [] c = "P" -> "p"
      [] OTHER -> c

Lower(s) == [i \in DOMAIN s |-> LowerChar(s[i])]

\* s.split(sep): the pieces of s between the occurrences of sep.
RECURSIVE Split(_, _)
Split(s, sep) ==
    LET i == IndexFrom(s, sep, 1)
    IN  IF i = 0 THEN <<s>>
        ELSE <<SubSeq(s, 1, i - 1)>> \o Split(SubSeq(s, i + 1, Len(s)), sep)

\* The position of the last c in s, 0 when there is none.
RECURSIVE LastIndex(_, _, _)
LastIndex(s, c, i) ==
    IF i < 1 THEN 0
    ELSE IF s[i] = c THEN i
    ELSE LastIndex(s, c, i - 1)

DOT == <<".">>
DOTDOT == <<".", ".">>
ROOT == <<"/">>

\* The pieces of s that are an element of skip left out.
DropParts(ps, skip) ==
    LET keep == {i \in DOMAIN ps : ps[i] \notin skip}
        RECURSIVE Pick(_)
        Pick(i) == IF i > Len(ps) THEN <<>>
                   ELSE IF i \in keep THEN <<ps[i]>> \o Pick(i + 1)
                   ELSE Pick(i + 1)
    IN  Pick(1)

\* Path(text).parts: the root first when the text starts with a slash, then
\* the components, the empty ones and "." left out.
PathParts(text) ==
    LET comps == DropParts(Split(text, "/"), {<<>>, DOT})
    IN  IF text # <<>> /\ text[1] = "/" THEN <<ROOT>> \o comps ELSE comps

\* Path.is_absolute()
IsAbsolute(text) == text # <<>> /\ text[1] = "/"

\* Path(text).name
BaseName(text) ==
    LET ps == PathParts(text)
    IN  IF ps = <<>> \/ ps[Len(ps)] = ROOT THEN <<>> ELSE ps[Len(ps)]

\* Path.suffix: the last dot of the name and what follows it, unless that dot
\* starts or ends the name.
Suffix(name) ==
    LET i == LastIndex(name, ".", Len(name))
    IN  IF i <= 1 \/ i = Len(name) THEN <<>> ELSE SubSeq(name, i, Len(name))

\* name.startswith(".")
StartsWithDot(name) == name # <<>> /\ name[1] = "."

\* name.endswith(tail)
EndsWith(name, tail) ==
    /\ Len(name) >= Len(tail)
    /\ SubSeq(name, Len(name) - Len(tail) + 1, Len(name)) = tail

ZIP == <<".", "z", "i", "p">>
TarSuffixes ==
    { <<".", "t", "a", "r">>, <<".", "g", "z">>, <<".", "b", "z", "2">>,
      <<".", "x", "z">>, <<".", "t", "g", "z">>, <<".", "t", "b", "z", "2">>,
      <<".", "t", "x", "z">> }
TarDoubleSuffixes ==
    { <<".", "t", "a", "r", ".", "g", "z">>,
      <<".", "t", "a", "r", ".", "b", "z", "2">>,
      <<".", "t", "a", "r", ".", "x", "z">> }

\* is_supported_archive(file_path)
IsSupportedArchiveAny(name) == TRUE
IsSupportedArchive(name) == Lower(Suffix(name)) \in {ZIP} \cup TarSuffixes

\* A directory tree is a function from paths (sequences of names, relative
\* to the root of the tree) to entries [kind, data].
EmptyTree == <<>> :> [kind |-> "dir", data |-> <<>>]

\* The tree with a file at path ps, and the directories leading to it.
WriteFile(tree, ps, data) ==
    LET dirs == [q \in {SubSeq(ps, 1, n) : n \in 0 .. (Len(ps) - 1)}
                    |-> [kind |-> "dir", data |-> <<>>]]
    IN  (ps :> [kind |-> "file", data |-> data]) @@ tree @@ dirs

\* ZipFile.extract(member, extract_dir): the member is written under the
\* directory at its name without the empty, "." and ".." components (a name
\* with no other component is a directory entry).
ZipTarget(name) == DropParts(Split(name, "/"), {<<>>, DOT, DOTDOT})

ZipExtractMember(tree, m) ==
    IF ZipTarget(m.name) = <<>> THEN tree
    ELSE WriteFile(tree, ZipTarget(m.name), m.data)

\* The test of the tar branch: an absolute name or a name with a ".." part.
TarUnsafe(name) == IsAbsolute(name) \/ DOTDOT \in Range(PathParts(name))

\* TarFile.extract(member, extract_dir) of a member that passed the test.
TarExtractMember(tree, m) ==
    IF TarUnsafe(m.name) THEN tree
    ELSE WriteFile(tree, PathParts(m.name), m.data)

RECURSIVE ExtractAll(_, _, _)
ExtractAll(tree, members, format) ==
    IF members = <<>> THEN tree
    ELSE ExtractAll(IF format = "zip" THEN ZipExtractMember(tree, Head(members))
                    ELSE TarExtractMember(tree, Head(members)),
                    Tail(members), format)

\* extract_archive: the reader chosen from the name of the archive.
ArchiveReader(name) ==
    IF Lower(Suffix(name)) = ZIP THEN "zip"
    ELSE IF \/ Lower(Suffix(name)) \in TarSuffixes
            \/ \E d \in TarDoubleSuffixes : EndsWith(name, d)
         THEN "tar"
    ELSE "unsupported"

\* extract_archive(archive_path, extract_dir) on an empty directory: the
\* tree extracted, or the error raised (a file that is not an archive of the
\* format its name announces makes the reader raise).
ExtractArchive(archive) ==
    LET reader == ArchiveReader(archive.name)
    IN  IF reader = "unsupported" THEN [error |-> "ValueError", tree |-> EmptyTree]
        ELSE IF reader # archive.format
             THEN [error |-> "ReadError", tree |-> EmptyTree]
        ELSE [error |-> "none", tree |-> ExtractAll(EmptyTree, archive.members, reader)]

\* A sequence of the elements of a finite set.
RECURSIVE SetToSeq(_)
SetToSeq(S) ==
    IF S = {} THEN <<>>
    ELSE LET x == CHOOSE y \in S : TRUE IN <<x>> \o SetToSeq(S \ {x})

\* directory_path.rglob("*"): every entry below the root.
Rglob(tree) == DOMAIN tree \ {<<>>}

\* The filter of process_directory on the entries of rglob.
IsUploadableKeepHidden(tree, q) == tree[q].kind = "file"
IsUploadable(tree, q) ==
    tree[q].kind = "file" /\ ~StartsWithDot(q[Len(q)])

\* process_directory: the files it submits, as [path, data].
ListFiles(tree) ==
    SetToSeq({[path |-> q, data |-> tree[q].data] : q \in {r \in Rglob(tree) : IsUploadable(tree, r)}})

----------------------------------------------------------------------------
(* Returning from upload_func: upload_file and process_upload_path *)

None == [status |-> "None"]

\* The history of an order, with one more task when the history is kept.
Record(order, p) == IF recordOrder THEN Append(order, p) ELSE order

\* upload_file: an exception of upload_func is logged and None is returned.
UploadFileRaising(e) == [status |-> "exception", error |-> e]
UploadFileCatch(e) == None

\* upload_func returns v in thread p: to process_upload_path, which returns
\* it (thread 0), or to upload_file, whose future holds it (a task).
UploadFuncReturn(p, v) ==
    /\ pc' = [pc EXCEPT ![p] = IF p = 0 THEN "done" ELSE "finished"]
    /\ arg' = [arg EXCEPT ![p] = <<>>]
    /\ ret' = [ret EXCEPT ![p] = [op |-> "none"]]
    /\ IF p = 0
       THEN /\ result' = [kind |-> "single", value |-> v]
            /\ UNCHANGED <<outcome, finishedOrder>>
       ELSE /\ outcome' = [outcome EXCEPT ![p] = v]
            /\ finishedOrder' = Record(finishedOrder, p)
            /\ UNCHANGED result
    /\ UNCHANGED raisedIn

\* upload_func raises e in thread p: process_upload_path lets it pass
\* (thread 0), upload_file catches it (a task).
UploadFuncRaiseRetried(p, e) ==
    /\ pc' = [pc EXCEPT ![p] = IF p = 0 THEN "done" ELSE "ua_hash"]
    /\ arg' = [arg EXCEPT ![p] = <<>>]
    /\ ret' = [ret EXCEPT ![p] = [op |-> "none"]]
    /\ raisedIn' = raisedIn \cup {<<p, e>>}
    /\ UNCHANGED <<outcome, finishedOrder, result>>
UploadFuncRaise(p, e) ==
    /\ pc' = [pc EXCEPT ![p] = IF p = 0 THEN "done" ELSE "finished"]
    /\ arg' = [arg EXCEPT ![p] = <<>>]
    /\ ret' = [ret EXCEPT ![p] = [op |-> "none"]]
    /\ raisedIn' = raisedIn \cup {<<p, e>>}
    /\ IF p = 0
       THEN /\ result' = [kind |-> "raised", value |-> e]
            /\ UNCHANGED <<outcome, finishedOrder>>
       ELSE /\ outcome' = [outcome EXCEPT ![p] = UploadFileCatch(e)]
            /\ finishedOrder' = Record(finishedOrder, p)
            /\ UNCHANGED result

\* The file thread p uploads.
FileOf(p) ==
    IF p = 0 THEN [path |-> PathParts(input.name), data |-> input.data]
    ELSE files[p]

----------------------------------------------------------------------------
(* The hash ledger: AssetHashDatabase *)

Unlocked == -1

\* f.write(f"{file_hash}\n") on a file opened in append mode
AppendLineDropNewline(text, h) == text \o h
AppendLine(text, h) == text \o h \o <<NL>>

\* _load_cache: the stripped, non-empty lines of the file; nothing when the
\* file does not exist.
LoadCache(exists, text) ==
    IF ~exists THEN {}
    ELSE {Strip(l) : l \in Range(SplitLines(text))} \ {<<>>}

\* `with self._lock:` may be entered when no thread holds the lock.
LockFreeUnguarded == TRUE
LockFree == lock = Unlocked

\* The test `if file_hash in self._hash_cache: return` of add_hash.
AlreadyCachedNever(h) == FALSE
AlreadyCached(h) == h \in cache

\* What contains_hash(h) evaluates inside its locked section.
ContainsHashValueCacheOnly(h) == h \in cache
ContainsHashValue(h) == dbExists /\ h \in cache

Threads == 1 .. NThreads

\* A thread calls add_hash(h).
CallAddHash(t, h) ==
    /\ pc[t] = "idle"
    /\ pc' = [pc EXCEPT ![t] = "add_lock"]
    /\ arg' = [arg EXCEPT ![t] = h]
    /\ ret' = [ret EXCEPT ![t] = [op |-> "calling"]]
    /\ UNCHANGED <<ledgerVars, ledgerHistory, envVars, batchVars, outcome, finishedOrder, result,
                   threadHistory>>

\* A thread calls contains_hash(h).
CallContainsHash(t, h) ==
    /\ pc[t] = "idle"
    /\ pc' = [pc EXCEPT ![t] = "has_lock"]
    /\ arg' = [arg EXCEPT ![t] = h]
    /\ ret' = [ret EXCEPT ![t] = [op |-> "calling", known |-> h \in addReturned]]
    /\ UNCHANGED <<ledgerVars, ledgerHistory, envVars, batchVars, outcome, finishedOrder, result,
                   threadHistory>>

\* upload_asset after its transport upload: the result is returned, once its
\* hash is in the ledger when its status is "created" or "replaced".
UploadAssetReturn(t) == UploadFuncReturn(t, [status |-> ret[t].status, id |-> ret[t].id])

\* add_hash returns: to the thread that called it, or to upload_asset.
AddHashReturn(t) ==
    /\ addReturned' = addReturned \cup {arg[t]}
    /\ recorded' = recorded \cup {arg[t]}
    /\ IF uploadFunc = "none"
       THEN /\ pc' = [pc EXCEPT ![t] = "idle"]
            /\ arg' = [arg EXCEPT ![t] = <<>>]
            /\ ret' = [ret EXCEPT ![t] = [op |-> "add_hash"]]
            /\ UNCHANGED <<outcome, finishedOrder, result, raisedIn>>
       ELSE UploadAssetReturn(t)

\* The "skipped" result of upload_asset: the name of the file and its hash.
SkippedResult(t) ==
    [status |-> "skipped", id |-> "skipped",
     name |-> FileOf(t).path[Len(FileOf(t).path)], hash |-> arg[t]]

\* contains_hash returns r: to the thread that called it, or to upload_asset,
\* which returns the "skipped" result when r is true and uploads otherwise.
ContainsHashReturn(t, r) ==
    IF uploadFunc = "none"
    THEN /\ pc' = [pc EXCEPT ![t] = "idle"]
         /\ arg' = [arg EXCEPT ![t] = <<>>]
         /\ ret' = [ret EXCEPT ![t] = [op |-> "contains_hash",
                                       known |-> ret[t].known, value |-> r,
                                       recorded |-> arg[t] \in recorded,
                                       existed |-> dbExists]]
         /\ UNCHANGED <<outcome, finishedOrder, result, raisedIn>>
    ELSE IF r
         THEN UploadFuncReturn(t, SkippedResult(t))
         ELSE /\ pc' = [pc EXCEPT ![t] = "ua_transport"]
              /\ UNCHANGED <<arg, ret, outcome, finishedOrder, result, raisedIn>>

\* add_hash, `with self._lock:` entered
AddHashLock(t) ==
    /\ pc[t] = "add_lock"
    /\ LockFree
    /\ lock' = t
    /\ pc' = [pc EXCEPT ![t] = "add_check"]
    /\ UNCHANGED <<arg, ret, cache, dbText, dbExists, ledgerHistory, fresh, envVars,
                   batchVars, outcome, finishedOrder, result, threadHistory>>

\* add_hash, the membership test: a hash already cached returns at once
\* (leaving the `with` block releases the lock).
AddHashCheck(t) ==
    /\ pc[t] = "add_check"
    /\ IF AlreadyCached(arg[t])
       THEN /\ lock' = Unlocked
            /\ AddHashReturn(t)
            /\ UNCHANGED <<cache, dbText, dbExists, fresh>>
       ELSE /\ pc' = [pc EXCEPT ![t] = "add_cache"]
            /\ UNCHANGED <<arg, ret, ledgerVars, ledgerHistory, outcome, finishedOrder, result, raisedIn>>
    /\ UNCHANGED <<envVars, batchVars, calls, invoked, known, sidecarOf>>

\* add_hash, self._hash_cache.add(file_hash)
AddHashCache(t) ==
    /\ pc[t] = "add_cache"
    /\ cache' = cache \cup {arg[t]}
    /\ fresh' = FALSE
    /\ pc' = [pc EXCEPT ![t] = "add_write"]
    /\ UNCHANGED <<arg, ret, lock, dbText, dbExists, ledgerHistory, envVars,
                   batchVars, outcome, finishedOrder, result, threadHistory>>

\* add_hash, the append to the backing file (open("a") creates a missing
\* file), the end of the locked section and the return.
AddHashWrite(t) ==
    /\ pc[t] = "add_write"
    /\ dbText' = AppendLine(IF dbExists THEN dbText ELSE <<>>, arg[t])
    /\ dbExists' = TRUE
    /\ lock' = Unlocked
    /\ AddHashReturn(t)
    /\ UNCHANGED <<cache, fresh, envVars, batchVars, calls, invoked, known, sidecarOf>>

\* contains_hash, `with self._lock:` entered
ContainsHashLock(t) ==
    /\ pc[t] = "has_lock"
    /\ LockFree
    /\ lock' = t
    /\ pc' = [pc EXCEPT ![t] = "has_check"]
    /\ UNCHANGED <<arg, ret, cache, dbText, dbExists, ledgerHistory, fresh, envVars,
                   batchVars, outcome, finishedOrder, result, threadHistory>>

\* contains_hash, the locked section and the return
ContainsHashCheck(t) ==
    /\ pc[t] = "has_check"
    /\ lock' = Unlocked
    /\ ContainsHashReturn(t, ContainsHashValue(arg[t]))
    /\ UNCHANGED <<cache, dbText, dbExists, fresh, ledgerHistory, envVars, batchVars,
                   calls, invoked, known, sidecarOf>>

\* AssetHashDatabase(db_path) on the path of the ledger, once every call on
\* the previous instance has returned: the file is created when missing, the
\* cache and the lock are new, the file is loaded.
NewInstance ==
    /\ \A t \in Threads : pc[t] = "idle"
    /\ dbExists' = TRUE
    /\ dbText' = IF dbExists THEN dbText ELSE <<>>
    /\ lock' = Unlocked
    /\ cache' = LoadCache(TRUE, dbText')
    /\ fresh' = TRUE
    /\ recorded' = cache'
    /\ UNCHANGED <<pc, arg, ret, addReturned, envVars, batchVars, outcome, finishedOrder, result,
                   threadHistory>>

\* The backing files a ledger can be constructed on: the lines a ledger wrote
\* (each hash once) and blank lines, at most MaxInitLines of them.
InitLineSeqs ==
    {ls \in UNION {[1 .. n -> Hashes \cup {<<>>}] : n \in 0 .. MaxInitLines} :
        \A i, j \in DOMAIN ls : (i # j /\ ls[i] # <<>>) => ls[i] # ls[j]}

InitTexts == {Flatten([i \in DOMAIN ls |-> ls[i] \o <<NL>>]) : ls \in InitLineSeqs}

\* The ledger after AssetHashDatabase(db_path).
InitDatabase ==
    /\ dbExists = TRUE
    /\ dbText \in InitTexts
    /\ lock = Unlocked
    /\ cache = LoadCache(dbExists, dbText)
    /\ addReturned = {}
    /\ recorded = cache
    /\ fresh = TRUE

NoTemp == [exists |-> FALSE, tree |-> EmptyTree]
NoResult == [kind |-> "none"]

\* ProgressManager(max_workers): not started, no task, its own pool of
\* max_workers at work.
DefaultMaxWorkers == 5
NewManager(maxWorkers) ==
    [lock |-> Unlocked, started |-> FALSE, live |-> FALSE, shutdown |-> FALSE,
     tasks |-> <<>>, registry |-> <<>>, starts |-> 0, stops |-> 0, shutdowns |-> 0,
     maxWorkers |-> maxWorkers]

\* The global instance made when the module is loaded.
NewReporter == NewManager(DefaultMaxWorkers)

\* No path: the value None of a path argument.
NoPath == "None"

\* No keyword argument.
NoKwargs == <<>>

\* No call of process_upload_path.
NoUpload ==
    /\ input = [kind |-> "none"]
    /\ ignoreDb = FALSE
    /\ uploadFunc = "none"
    /\ albumsBefore = <<>>
    /\ recordOrder = FALSE
    /\ entry = "none"
    /\ sidecarPath = NoPath
    /\ recursive = FALSE
    /\ dryRun = "no"
    /\ echoed = <<>>
    /\ kwargs = NoKwargs
    /\ sidecarOf = <<>>
    /\ temp = NoTemp
    /\ files = <<>>
    /\ results = <<>>
    /\ collected = <<>>
    /\ finishedOrder = <<>>
    /\ albumTitles = <<>>
    /\ result = NoResult
    /\ raisedIn = {}

InitLedger ==
    /\ InitDatabase
    /\ NoUpload
    /\ pc = [t \in Threads |-> "idle"]
    /\ arg = [t \in Threads |-> <<>>]
    /\ ret = [t \in Threads |-> [op |-> "none"]]
    /\ outcome = [t \in Threads |-> None]
    /\ calls = [t \in Threads |-> 0]
    /\ invoked = [t \in Threads |-> 0]
    /\ known = [t \in Threads |-> "unset"]
    /\ reporter = NewReporter
    /\ handle = <<>>

NextLedger ==
    \/ \E t \in Threads, h \in Hashes : CallAddHash(t, h)
    \/ \E t \in Threads, h \in Hashes : CallContainsHash(t, h)
    \/ \E t \in Threads : AddHashLock(t)
    \/ \E t \in Threads : AddHashCheck(t)
    \/ \E t \in Threads : AddHashCache(t)
    \/ \E t \in Threads : AddHashWrite(t)
    \/ \E t \in Threads : ContainsHashLock(t)
    \/ \E t \in Threads : ContainsHashCheck(t)
    \/ NewInstance

SpecLedger == InitLedger /\ [][NextLedger]_vars

\* os.remove(db_path) by the user of the ledger, as in
\* test_asset_hash_database_contains_hash_nonexistent: at any moment of the
\* life of the instance.
RemoveFile ==
    /\ dbExists
    /\ dbExists' = FALSE
    /\ dbText' = <<>>
    /\ UNCHANGED <<lock, cache, fresh, pc, arg, ret, ledgerHistory, envVars,
                   batchVars, outcome, finishedOrder, result, threadHistory>>

\* The ledger used by threads while its backing file can be removed.
NextRemoval ==
    \/ \E t \in Threads, h \in Hashes : CallAddHash(t, h)
    \/ \E t \in Threads, h \in Hashes : CallContainsHash(t, h)
    \/ \E t \in Threads : AddHashLock(t)
    \/ \E t \in Threads : AddHashCheck(t)
    \/ \E t \in Threads : AddHashCache(t)
    \/ \E t \in Threads : AddHashWrite(t)
    \/ \E t \in Threads : ContainsHashLock(t)
    \/ \E t \in Threads : ContainsHashCheck(t)
    \/ RemoveFile

SpecRemoval == InitLedger /\ [][NextRemoval]_vars

----------------------------------------------------------------------------
(* The ledger when an append to its backing file fails *)

\* add_hash, db_path.open("a") or f.write raises OSError (disk full, no
\* permission): the hash was put in the cache by the step before, the `with`
\* block releases the lock and the exception leaves add_hash.
AddHashWriteFails(t) ==
    /\ pc[t] = "add_write"
    /\ lock' = Unlocked
    /\ IF uploadFunc = "none"
       THEN /\ pc' = [pc EXCEPT ![t] = "idle"]
            /\ arg' = [arg EXCEPT ![t] = <<>>]
            /\ ret' = [ret EXCEPT ![t] = [op |-> "add_hash_raised", hash |-> arg[t]]]
            /\ UNCHANGED <<outcome, finishedOrder, result, raisedIn>>
       ELSE UploadFuncRaise(t, "OSError")
    /\ UNCHANGED <<cache, dbText, dbExists, fresh, ledgerHistory, envVars, batchVars, calls,
                   invoked, known, sidecarOf>>

NextFault ==
    \/ NextLedger
    \/ \E t \in Threads : AddHashWriteFails(t)

SpecFault == InitLedger /\ [][NextFault]_vars

----------------------------------------------------------------------------
(* AssetAPI.upload_asset and the mock upload function of the tests *)

\* The statuses the transport upload (ImmichClient.upload_asset) returns.
TransportStatuses == {"created", "replaced", "duplicate"}

\* The test that decides whether upload_asset records the hash.
IsFreshSuccessCreatedOnly(status) == status = "created"
IsFreshSuccessAlways(status) == TRUE
IsFreshSuccess(status) == status \in {"created", "replaced"}

\* The test `not ignore_db and ...` before the ledger is asked.
ChecksLedgerAlways == TRUE
ChecksLedger == ~ignoreDb

\* upload_func is called in thread p.
FirstStep == IF uploadFunc = "mock" THEN "mock_call" ELSE "ua_hash"

\* upload_wrapper of upload_assets: upload_kwargs.pop("sidecar_path", None).
PopSidecar(kw) == IF "sidecar_path" \in DOMAIN kw THEN kw["sidecar_path"] ELSE NoPath

\* upload_asset is called with the sidecar_path the wrapper took out of the
\* keyword arguments: hash_file(file_path), which raises when the file cannot
\* be found, then the call of contains_hash unless ignore_db is set.
UploadAssetHash(p) ==
    /\ pc[p] = "ua_hash"
    /\ invoked' = [invoked EXCEPT ![p] = @ + 1]
    /\ sidecarOf' = (p :> PopSidecar(kwargs)) @@ sidecarOf
    /\ \E readable \in BOOLEAN :
          IF readable
          THEN /\ arg' = [arg EXCEPT ![p] = FileOf(p).data]
               /\ known' = [known EXCEPT ![p] =
                               IF ContainsHashValue(FileOf(p).data) THEN "yes" ELSE "no"]
               /\ pc' = [pc EXCEPT ![p] = IF ChecksLedger THEN "has_lock" ELSE "ua_transport"]
               /\ ret' = [ret EXCEPT ![p] = [op |-> "hashed"]]
               /\ UNCHANGED <<outcome, finishedOrder, result, raisedIn>>
          ELSE /\ UploadFuncRaise(p, "FileNotFoundError")
               /\ UNCHANGED known
    /\ UNCHANGED <<ledgerVars, ledgerHistory, envVars, batchVars, calls>>

\* ImmichClient.upload_asset: with dry_run it returns a made-up result at
\* once; otherwise what the server answers.
DryRunResult == [status |-> "created", id |-> "dry-run-id"]
ClientUploadResults ==
    IF dryRun = "yes" THEN {DryRunResult}
    ELSE {[status |-> st, id |-> "asset"] : st \in TransportStatuses}

\* upload_asset: self.client.upload_asset(...), which returns a status or
\* raises; a "created" or "replaced" result is followed by add_hash.
UploadAssetTransport(p) ==
    /\ pc[p] = "ua_transport"
    /\ calls' = [calls EXCEPT ![p] = @ + 1]
    /\ \/ \E r \in ClientUploadResults :
            IF IsFreshSuccess(r.status)
            THEN /\ pc' = [pc EXCEPT ![p] = "add_lock"]
                 /\ ret' = [ret EXCEPT ![p] = [op |-> "transport", status |-> r.status,
                                               id |-> r.id]]
                 /\ UNCHANGED <<arg, outcome, finishedOrder, result, raisedIn>>
            ELSE UploadFuncReturn(p, r)
       \/ /\ dryRun # "yes"
          /\ UploadFuncRaise(p, "ImmichClientError")
    /\ UNCHANGED <<ledgerVars, ledgerHistory, envVars, batchVars, invoked, known, sidecarOf>>

\* The MagicMock upload function of the tests: a result, or an exception.
MockCall(p) ==
    /\ pc[p] = "mock_call"
    /\ invoked' = [invoked EXCEPT ![p] = @ + 1]
    /\ \/ UploadFuncReturn(p, [status |-> "created", id |-> "test-id"])
       \/ UploadFuncRaise(p, "Exception")
    /\ UNCHANGED <<ledgerVars, ledgerHistory, envVars, batchVars, calls, known, sidecarOf>>

----------------------------------------------------------------------------
(* process_upload_path, process_archive, process_directory *)

IsArchiveInput == input.kind = "file" /\ IsSupportedArchive(BaseName(input.name))

\* file_path.exists()
PathExistsAlways == TRUE
PathExists == input.kind # "missing"

\* The directory process_directory works on, and its name.
WorkTree == IF input.kind = "dir" THEN input.tree ELSE temp.tree
TempName == <<"t", "m", "p">>
WorkName == IF input.kind = "dir" THEN BaseName(input.name) ELSE TempName

\* list.remove(x): the list without the first x.
RemoveFirstKeep(seq, x) == seq
RemoveFirst(seq, x) ==
    LET i == IndexFrom(seq, x, 1)
    IN  SubSeq(seq, 1, i - 1) \o SubSeq(seq, i + 1, Len(seq))

\* process_upload_path: the path is tested and the call is dispatched.
ProcessUploadPath ==
    /\ pc[0] = "start"
    /\ CASE ~PathExists ->
              /\ result' = [kind |-> "raised", value |-> "FileNotFoundError"]
              /\ pc' = [pc EXCEPT ![0] = "done"]
         [] input.kind = "dir" ->
              /\ pc' = [pc EXCEPT ![0] = "pd_list"]
              /\ UNCHANGED result
         [] IsArchiveInput ->
              /\ pc' = [pc EXCEPT ![0] = "pa_start"]
              /\ UNCHANGED result
         [] OTHER ->
              /\ pc' = [pc EXCEPT ![0] = FirstStep]
              /\ UNCHANGED result
    /\ UNCHANGED <<ledgerVars, ledgerHistory, envVars, batchVars, arg, ret, outcome, finishedOrder,
                   threadHistory>>

\* process_archive: a path that is_supported_archive rejects raises ValueError
\* before anything is created.
ProcessArchiveCheck ==
    /\ pc[0] = "pa_start"
    /\ IF IsSupportedArchive(BaseName(input.name))
       THEN /\ pc' = [pc EXCEPT ![0] = "pa_extract"]
            /\ UNCHANGED result
       ELSE /\ pc' = [pc EXCEPT ![0] = "done"]
            /\ result' = [kind |-> "raised", value |-> "ValueError"]
    /\ UNCHANGED <<ledgerVars, ledgerHistory, envVars, batchVars, arg, ret, outcome,
                   finishedOrder, threadHistory>>

\* process_archive leaves `with tempfile.TemporaryDirectory()`: the directory
\* and what it holds are removed.
TempDirKept(t) == t
TempDirCleanup(t) == NoTemp

\* process_archive: the temporary directory is created and the archive is
\* extracted to it; an error of the extraction leaves the `with` block, which
\* removes the directory, and reaches the caller.
ProcessArchiveExtract ==
    /\ pc[0] = "pa_extract"
    /\ LET x == ExtractArchive([name |-> BaseName(input.name), format |-> input.format,
                                members |-> input.members])
       IN  IF x.error = "none"
           THEN /\ temp' = [exists |-> TRUE, tree |-> x.tree]
                /\ pc' = [pc EXCEPT ![0] = "pd_list"]
                /\ UNCHANGED result
           ELSE /\ temp' = TempDirCleanup([exists |-> TRUE, tree |-> x.tree])
                /\ pc' = [pc EXCEPT ![0] = "done"]
                /\ result' = [kind |-> "raised", value |-> x.error]
    /\ UNCHANGED <<ledgerVars, ledgerHistory, envVars, files, results, collected, albumTitles,
                   arg, ret, outcome, finishedOrder, threadHistory>>

\* process_directory: the files are listed and the name of the directory is
\* added to the album titles.
ProcessDirectoryList ==
    /\ pc[0] = "pd_list"
    /\ files' = ListFiles(WorkTree)
    /\ albumTitles' = Append(albumTitles, Strip(WorkName))
    /\ pc' = [pc EXCEPT ![0] = "pd_submit"]
    /\ UNCHANGED <<ledgerVars, ledgerHistory, envVars, temp, results, collected, arg, ret,
                   outcome, finishedOrder, result, threadHistory>>

\* process_directory: one task per file is submitted to the pool.
ProcessDirectorySubmit ==
    /\ pc[0] = "pd_submit"
    /\ LET tasks == 1 .. Len(files)
       IN  /\ pc' = [p \in {0} \cup tasks |-> IF p = 0 THEN "pd_collect" ELSE "queued"]
           /\ arg' = [p \in {0} \cup tasks |-> <<>>]
           /\ ret' = [p \in {0} \cup tasks |-> [op |-> "none"]]
           /\ outcome' = [p \in {0} \cup tasks |-> None]
           /\ finishedOrder' = <<>>
           /\ calls' = [p \in {0} \cup tasks |-> 0]
           /\ invoked' = [p \in {0} \cup tasks |-> 0]
           /\ known' = [p \in {0} \cup tasks |-> "unset"]
    /\ UNCHANGED <<ledgerVars, ledgerHistory, envVars, batchVars, result, raisedIn, sidecarOf>>

Tasks == DOMAIN pc \ {0}
Running == {p \in Tasks : pc[p] \notin {"queued", "finished", "collected"}}

\* A worker of the pool takes a queued task and calls upload_file.
TaskStart(p) ==
    /\ p \in Tasks
    /\ pc[p] = "queued"
    /\ Cardinality(Running) < PoolSize
    /\ pc' = [pc EXCEPT ![p] = FirstStep]
    /\ UNCHANGED <<ledgerVars, ledgerHistory, envVars, batchVars, arg, ret, outcome, finishedOrder,
                   result, threadHistory>>

\* The test `if result is not None` of process_directory.
KeepsResultAlways(r) == TRUE
KeepsResult(r) == r # None

\* results.append(result)
AppendResultFirst(rs, r) == <<r>> \o rs
AppendResult(rs, r) == Append(rs, r)

\* process_directory: as_completed yields a finished future; its result is
\* appended unless it is None (an exception of the future is logged).
ProcessDirectoryCollect(p) ==
    /\ pc[0] = "pd_collect"
    /\ p \in Tasks
    /\ pc[p] = "finished"
    /\ pc' = [pc EXCEPT ![p] = "collected"]
    /\ results' = IF outcome[p].status # "exception" /\ KeepsResult(outcome[p])
                  THEN AppendResult(results, outcome[p])
                  ELSE results
    /\ collected' = Record(collected, p)
    /\ UNCHANGED finishedOrder
    /\ UNCHANGED <<ledgerVars, ledgerHistory, envVars, temp, files, albumTitles, arg,
                   ret, outcome, result, threadHistory>>

\* `return results` of process_directory.
DirectoryResultUnwrapped(rs) ==
    IF Len(rs) = 1 THEN [kind |-> "single", value |-> rs[1]]
    ELSE [kind |-> "list", value |-> rs]
DirectoryResult(rs) == [kind |-> "list", value |-> rs]

\* The `finally` of process_directory and what follows it: the album title is
\* removed (list.remove raises ValueError when it is not in the list), then
\* process_directory returns or raises what it was about to (ending), and
\* process_archive leaves its `with` block.
ProcessDirectoryEnd(ending) ==
    /\ pc' = [pc EXCEPT ![0] = "done"]
    /\ temp' = TempDirCleanup(temp)
    /\ IF Strip(WorkName) \in Range(albumTitles)
       THEN /\ albumTitles' = RemoveFirst(albumTitles, Strip(WorkName))
            /\ result' = ending
       ELSE /\ result' = [kind |-> "raised", value |-> "ValueError"]
            /\ UNCHANGED albumTitles

\* process_directory: every future was yielded; the executor is left, the
\* `finally` runs and the results are returned.
ProcessDirectoryReturn ==
    /\ pc[0] = "pd_collect"
    /\ \A p \in Tasks : pc[p] = "collected"
    /\ ProcessDirectoryEnd(DirectoryResult(results))
    /\ UNCHANGED <<ledgerVars, ledgerHistory, envVars, files, results, collected, arg, ret,
                   outcome, finishedOrder, threadHistory>>

----------------------------------------------------------------------------
(* The calls of process_upload_path the model makes *)

File(data) == [kind |-> "file", data |-> data]
Dir == [kind |-> "dir", data |-> <<>>]
H1 == <<"a">>
H2 == <<"a", "b">>

\* The entries a directory can hold: plain and hidden files, a subdirectory
\* with a plain and a hidden file, an archive, a hidden directory with a
\* plain file.
DirUniverse ==
    (<< <<"a">> >> :> File(H1)) @@
    (<< <<".", "h">> >> :> File(H1)) @@
    (<< <<"s">> >> :> Dir) @@
    (<< <<"s">>, <<"c">> >> :> File(H2)) @@
    (<< <<"s">>, <<".", "k">> >> :> File(H1)) @@
    (<< <<"z", ".", "z", "i", "p">> >> :> File(H2)) @@
    (<< <<".", "g">> >> :> Dir) @@
    (<< <<".", "g">>, <<"d">> >> :> File(H1))

\* The same content twice, and a third file.
AssetUniverse ==
    (<< <<"a">> >> :> File(H1)) @@
    (<< <<"s">> >> :> Dir) @@
    (<< <<"s">>, <<"c">> >> :> File(H1)) @@
    (<< <<"s">>, <<"e">> >> :> File(H2))

\* The trees made of entries of a universe: with an entry, its directory.
TreesOf(universe) ==
    {[q \in P \cup {<<>>} |-> IF q = <<>> THEN Dir ELSE universe[q]] :
        P \in {Q \in SUBSET DOMAIN universe :
                 \A q \in Q : Len(q) > 1 => SubSeq(q, 1, Len(q) - 1) \in Q}}

DirName == <<"/", "p", "/", "d">>
PlainName == <<"/", "p", "/", "f", ".", "j">>

\* The names of the members of an archive: plain, nested, hidden, with a
\* parent-directory part, absolute.
MemberNames ==
    { <<"a">>, <<"s", "/", "c">>, <<".", "h">>, <<".", ".", "/", "e">>, <<"/", "r">> }
PlainMemberNames == { <<"a">>, <<"s", "/", "c">> }

MemberLists(names) ==
    {ms \in UNION {[1 .. n -> [name : names, data : {H1}]] : n \in 0 .. MaxMembers} :
        \A i, j \in DOMAIN ms : i # j => ms[i].name # ms[j].name}

\* Archive files: a zip, a compressed tar, and a gzip file that holds no tar.
ArchiveFiles ==
    { [name |-> <<"/", "p", "/", "x", ".", "z", "i", "p">>, format |-> "zip"],
      [name |-> <<"/", "p", "/", "x", ".", "t", "a", "r", ".", "g", "z">>, format |-> "tar"],
      [name |-> <<"/", "p", "/", "x", ".", "j", ".", "g", "z">>, format |-> "gzip"] }

Archives(names) ==
    {[kind |-> "file", name |-> a.name, format |-> a.format, members |-> ms, data |-> H2] :
        a \in ArchiveFiles, ms \in MemberLists(names)}

Directories(universe) ==
    {[kind |-> "dir", name |-> DirName, tree |-> t] : t \in TreesOf(universe)}

PlainFiles ==
    {[kind |-> "file", name |-> PlainName, format |-> "none", members |-> <<>>, data |-> h] :
        h \in Hashes}

Missing == [kind |-> "missing", name |-> PlainName]

\* With the mock upload function every directory and archive; with
\* upload_asset the directories of the three files and the archives of plain
\* members.
Inputs(func) ==
    IF func = "mock"
    THEN Directories(DirUniverse) \cup Archives(MemberNames) \cup PlainFiles \cup {Missing}
    ELSE Directories(AssetUniverse) \cup Archives(PlainMemberNames) \cup PlainFiles
            \cup {Missing}

\* The first control point of the function the caller calls.
StartOf(func) ==
    CASE func = "process_upload_path" -> "start"
      [] func = "process_archive" -> "pa_start"
      [] func = "extract_archive" -> "ea_start"
      [] func = "upload_assets" -> "uas_start"
      [] func = "upload" -> "cli_start"

\* The caller is about to make its call; nothing has run.
InitCall ==
    /\ InitDatabase
    /\ albumTitles = albumsBefore
    /\ temp = NoTemp
    /\ files = <<>>
    /\ results = <<>>
    /\ collected = <<>>
    /\ finishedOrder = <<>>
    /\ result = NoResult
    /\ raisedIn = {}
    /\ pc = [p \in {0} |-> StartOf(entry)]
    /\ arg = [p \in {0} |-> <<>>]
    /\ ret = [p \in {0} |-> [op |-> "none"]]
    /\ outcome = [p \in {0} |-> None]
    /\ calls = [p \in {0} |-> 0]
    /\ invoked = [p \in {0} |-> 0]
    /\ known = [p \in {0} |-> "unset"]
    /\ kwargs = NoKwargs
    /\ sidecarOf = <<>>
    /\ echoed = <<>>
    /\ reporter = NewReporter
    /\ handle = <<>>

Init ==
    /\ uploadFunc \in {"mock", "upload_asset"}
    /\ ignoreDb \in (IF uploadFunc = "mock" THEN {FALSE} ELSE BOOLEAN)
    /\ input \in Inputs(uploadFunc)
    /\ albumsBefore = <<>>
    /\ recordOrder = FALSE
    /\ entry = "process_upload_path"
    /\ sidecarPath = NoPath
    /\ recursive = FALSE
    /\ dryRun = "no"
    /\ InitCall

Next ==
    \/ ProcessUploadPath
    \/ ProcessArchiveCheck
    \/ ProcessArchiveExtract
    \/ ProcessDirectoryList
    \/ ProcessDirectorySubmit
    \/ \E p \in DOMAIN pc : TaskStart(p)
    \/ \E p \in DOMAIN pc : MockCall(p)
    \/ \E p \in DOMAIN pc : UploadAssetHash(p)
    \/ \E p \in DOMAIN pc : ContainsHashLock(p)
    \/ \E p \in DOMAIN pc : ContainsHashCheck(p)
    \/ \E p \in DOMAIN pc : UploadAssetTransport(p)
    \/ \E p \in DOMAIN pc : AddHashLock(p)
    \/ \E p \in DOMAIN pc : AddHashCheck(p)
    \/ \E p \in DOMAIN pc : AddHashCache(p)
    \/ \E p \in DOMAIN pc : AddHashWrite(p)
    \/ \E p \in DOMAIN pc : ProcessDirectoryCollect(p)
    \/ ProcessDirectoryReturn

Spec == Init /\ [][Next]_vars

----------------------------------------------------------------------------
(* The order of the tasks of a batch of upload_asset calls *)

InitOrder ==
    /\ uploadFunc = "upload_asset"
    /\ ignoreDb \in BOOLEAN
    /\ input \in Directories(AssetUniverse) \cup Archives(PlainMemberNames)
    /\ albumsBefore = <<>>
    /\ recordOrder = TRUE
    /\ entry = "process_upload_path"
    /\ sidecarPath = NoPath
    /\ recursive = FALSE
    /\ dryRun = "no"
    /\ InitCall

NextOrder ==
    \/ ProcessUploadPath
    \/ ProcessArchiveCheck
    \/ ProcessArchiveExtract
    \/ ProcessDirectoryList
    \/ ProcessDirectorySubmit
    \/ \E p \in DOMAIN pc : TaskStart(p)
    \/ \E p \in DOMAIN pc : UploadAssetHash(p)
    \/ \E p \in DOMAIN pc : ContainsHashLock(p)
    \/ \E p \in DOMAIN pc : ContainsHashCheck(p)
    \/ \E p \in DOMAIN pc : UploadAssetTransport(p)
    \/ \E p \in DOMAIN pc : AddHashLock(p)
    \/ \E p \in DOMAIN pc : AddHashCheck(p)
    \/ \E p \in DOMAIN pc : AddHashCache(p)
    \/ \E p \in DOMAIN pc : AddHashWrite(p)
    \/ \E p \in DOMAIN pc : ProcessDirectoryCollect(p)
    \/ ProcessDirectoryReturn

SpecOrder == InitOrder /\ [][NextOrder]_vars

----------------------------------------------------------------------------
(* AssetAPI.upload_assets *)

SidecarName == "s.xmp"

\* Path(file_path).is_file() and Path(file_path).is_dir(): an archive is a
\* regular file.
IsFile == input.kind = "file"
IsDir == input.kind = "dir"

\* The test of upload_assets that puts sidecar_path among the keyword
\* arguments.
IncludesSidecar == sidecarPath # NoPath /\ IsFile /\ ~IsDir

\* upload_assets: the keyword arguments are prepared (of the others, which are
\* passed on as they are, nothing is kept here) and process_upload_path is
\* called with upload_wrapper.
UploadAssets ==
    /\ pc[0] = "uas_start"
    /\ kwargs' = IF IncludesSidecar THEN [k \in {"sidecar_path"} |-> sidecarPath]
                                    ELSE NoKwargs
    /\ pc' = [pc EXCEPT ![0] = "start"]
    /\ UNCHANGED <<ledgerVars, ledgerHistory, callArgs, reporterVars, echoed, batchVars, arg,
                   ret, outcome, finishedOrder, result, threadHistory>>

InitSidecar ==
    /\ uploadFunc = "upload_asset"
    /\ ignoreDb \in BOOLEAN
    /\ input \in Inputs(uploadFunc)
    /\ albumsBefore = <<>>
    /\ recordOrder = FALSE
    /\ entry = "upload_assets"
    /\ sidecarPath \in {NoPath, SidecarName}
    /\ recursive = FALSE
    /\ dryRun = "no"
    /\ InitCall

NextSidecar ==
    \/ UploadAssets
    \/ NextOrder

SpecSidecar == InitSidecar /\ [][NextSidecar]_vars

----------------------------------------------------------------------------
(* Uploads through upload_asset when an append to the ledger can fail *)

InitUploadFault ==
    /\ uploadFunc = "upload_asset"
    /\ ignoreDb \in BOOLEAN
    /\ input \in PlainFiles \cup Directories(AssetUniverse)
    /\ albumsBefore = <<>>
    /\ recordOrder = FALSE
    /\ entry = "process_upload_path"
    /\ sidecarPath = NoPath
    /\ recursive = FALSE
    /\ dryRun = "no"
    /\ InitCall

NextUploadFault ==
    \/ ProcessUploadPath
    \/ ProcessDirectoryList
    \/ ProcessDirectorySubmit
    \/ \E p \in DOMAIN pc : TaskStart(p)
    \/ \E p \in DOMAIN pc : UploadAssetHash(p)
    \/ \E p \in DOMAIN pc : ContainsHashLock(p)
    \/ \E p \in DOMAIN pc : ContainsHashCheck(p)
    \/ \E p \in DOMAIN pc : UploadAssetTransport(p)
    \/ \E p \in DOMAIN pc : AddHashLock(p)
    \/ \E p \in DOMAIN pc : AddHashCheck(p)
    \/ \E p \in DOMAIN pc : AddHashCache(p)
    \/ \E p \in DOMAIN pc : AddHashWrite(p)
    \/ \E p \in DOMAIN pc : AddHashWriteFails(p)
    \/ \E p \in DOMAIN pc : ProcessDirectoryCollect(p)
    \/ ProcessDirectoryReturn

SpecUploadFault == InitUploadFault /\ [][NextUploadFault]_vars

----------------------------------------------------------------------------
(* An upload with a dry-run client, then the same upload for real *)

\* The dry run has ended; upload_asset is called again on the same file with a
\* client that is not in dry-run mode, on the same ledger.
SecondUpload ==
    /\ pc[0] = "done"
    /\ dryRun = "yes"
    /\ dryRun' = "was"
    /\ pc' = [p \in {0} |-> "start"]
    /\ arg' = [p \in {0} |-> <<>>]
    /\ ret' = [p \in {0} |-> [op |-> "none"]]
    /\ outcome' = [p \in {0} |-> None]
    /\ calls' = [p \in {0} |-> 0]
    /\ invoked' = [p \in {0} |-> 0]
    /\ known' = [p \in {0} |-> "unset"]
    /\ sidecarOf' = <<>>
    /\ raisedIn' = {}
    /\ result' = NoResult
    /\ UNCHANGED <<ledgerVars, ledgerHistory, input, ignoreDb, uploadFunc, albumsBefore,
                   recordOrder, entry, sidecarPath, recursive, kwargs, reporterVars, echoed,
                   batchVars, finishedOrder>>

InitDryRun ==
    /\ uploadFunc = "upload_asset"
    /\ ignoreDb \in BOOLEAN
    /\ input \in PlainFiles
    /\ albumsBefore = <<>>
    /\ recordOrder = FALSE
    /\ entry = "process_upload_path"
    /\ sidecarPath = NoPath
    /\ recursive = FALSE
    /\ dryRun = "yes"
    /\ InitCall

NextDryRun ==
    \/ ProcessUploadPath
    \/ \E p \in DOMAIN pc : UploadAssetHash(p)
    \/ \E p \in DOMAIN pc : ContainsHashLock(p)
    \/ \E p \in DOMAIN pc : ContainsHashCheck(p)
    \/ \E p \in DOMAIN pc : UploadAssetTransport(p)
    \/ \E p \in DOMAIN pc : AddHashLock(p)
    \/ \E p \in DOMAIN pc : AddHashCheck(p)
    \/ \E p \in DOMAIN pc : AddHashCache(p)
    \/ \E p \in DOMAIN pc : AddHashWrite(p)
    \/ SecondUpload

SpecDryRun == InitDryRun /\ [][NextDryRun]_vars

----------------------------------------------------------------------------
(* The upload command of the command line, without albums *)

\* The keyword parameters of AssetAPI.upload_asset; it takes no **kwargs.
UploadAssetParameters ==
    {"device_asset_id", "device_id", "is_favorite", "is_archived", "file_created_at",
     "file_modified_at", "duration", "is_read_only", "sidecar_path", "ignore_db"}

\* The keywords UploadHelper.upload_single calls AssetAPI.upload_asset with.
UploadSingleKeywords ==
    {"device_asset_id", "device_id", "is_favorite", "is_archived", "sidecar_path",
     "ignore_db", "show_progress"}

\* The keywords UploadHelper.upload_multiple calls AssetAPI.upload_assets with,
\* and the keyword parameters of upload_assets.
UploadMultipleKeywords ==
    {"device_asset_id", "device_id", "is_favorite", "is_archived", "sidecar_path",
     "ignore_db"}
UploadAssetsParameters == UploadAssetParameters

\* A call binds its keywords to the parameters of the function: a keyword the
\* function does not have raises TypeError before its body runs.
Binds(keywords, parameters) == keywords \subseteq parameters

\* upload: the helper is made and, by the flag, upload_multiple or
\* upload_single is called.
CliUpload ==
    /\ pc[0] = "cli_start"
    /\ pc' = [pc EXCEPT ![0] = IF recursive THEN "um_call" ELSE "us_call"]
    /\ UNCHANGED <<ledgerVars, ledgerHistory, envVars, batchVars, arg, ret, outcome,
                   finishedOrder, result, threadHistory>>

\* The call of upload_func made by the helper in function `from`: the body of
\* the function called starts at `to`, or the call raises TypeError.
HelperCall(from, keywords, parameters, to) ==
    /\ pc[0] = from
    /\ IF Binds(keywords, parameters)
       THEN /\ pc' = [pc EXCEPT ![0] = to]
            /\ UNCHANGED result
       ELSE /\ pc' = [pc EXCEPT ![0] = "done"]
            /\ result' = [kind |-> "raised", value |-> "TypeError"]
    /\ UNCHANGED <<ledgerVars, ledgerHistory, envVars, batchVars, arg, ret, outcome,
                   finishedOrder, threadHistory>>

\* UploadHelper.upload_single: self.asset_api.upload_asset(file_path, ...).
UploadSingle == HelperCall("us_call", UploadSingleKeywords, UploadAssetParameters, "ua_hash")

\* UploadHelper.upload_multiple: self.asset_api.upload_assets(file_path, ...).
UploadMultiple ==
    HelperCall("um_call", UploadMultipleKeywords, UploadAssetsParameters, "uas_start")

\* _display_upload_results, and the `except Exception` of upload.
DisplayUploadResults(r) ==
    CASE r.kind = "raised" -> <<"Error", r.value>>
      [] r.kind = "single" -> <<"ID", r.value.id, "Status", r.value.status>>
      [] r.kind = "list" ->
           <<"Uploaded", Len(r.value)>> \o
           Flatten([i \in DOMAIN r.value |->
                       <<"ID", r.value[i].id, "Status", r.value[i].status>>])

\* upload: the helper has returned or raised, and the command writes what it
\* got.
CliDisplay ==
    /\ pc[0] = "done"
    /\ entry = "upload"
    /\ echoed' = DisplayUploadResults(result)
    /\ pc' = [pc EXCEPT ![0] = "cli_done"]
    /\ UNCHANGED <<ledgerVars, ledgerHistory, callVars, reporterVars, batchVars, arg, ret,
                   outcome, finishedOrder, result, threadHistory>>

\* file_path is a click.Path(exists=True): the command runs on paths that
\* exist.
InitCli ==
    /\ uploadFunc = "upload_asset"
    /\ ignoreDb \in BOOLEAN
    /\ input \in Inputs(uploadFunc) \ {Missing}
    /\ albumsBefore = <<>>
    /\ recordOrder = FALSE
    /\ entry = "upload"
    /\ sidecarPath = NoPath
    /\ recursive \in BOOLEAN
    /\ dryRun = "no"
    /\ InitCall

NextCli ==
    \/ CliUpload
    \/ UploadSingle
    \/ UploadMultiple
    \/ CliDisplay
    \/ NextSidecar

SpecCli == InitCli /\ [][NextCli]_vars

----------------------------------------------------------------------------
(* process_archive and extract_archive called by the user *)

\* extract_archive(archive_path, extract_dir) with an empty directory of the
\* caller: the members are extracted to it, or the error is raised.
ExtractArchiveCall ==
    /\ pc[0] = "ea_start"
    /\ LET x == ExtractArchive([name |-> BaseName(input.name), format |-> input.format,
                                members |-> input.members])
       IN  /\ temp' = [exists |-> TRUE, tree |-> x.tree]
           /\ result' = IF x.error = "none" THEN [kind |-> "returned"]
                         ELSE [kind |-> "raised", value |-> x.error]
    /\ pc' = [pc EXCEPT ![0] = "done"]
    /\ UNCHANGED <<ledgerVars, ledgerHistory, envVars, files, results, collected,
                   albumTitles, arg, ret, outcome, finishedOrder, threadHistory>>

\* Files that are archives of a format the functions do not read, named by
\* the extension of the format.
RarFiles ==
    {[kind |-> "file", name |-> <<"/", "p", "/", "x", ".", "r", "a", "r">>,
      format |-> "rar", members |-> ms, data |-> H2] : ms \in MemberLists(PlainMemberNames)}

InitDirect ==
    /\ uploadFunc = "mock"
    /\ ignoreDb = FALSE
    /\ input \in Archives(PlainMemberNames) \cup RarFiles
    /\ albumsBefore = <<>>
    /\ recordOrder = FALSE
    /\ entry \in {"process_upload_path", "process_archive", "extract_archive"}
    /\ sidecarPath = NoPath
    /\ recursive = FALSE
    /\ dryRun = "no"
    /\ InitCall

NextDirect ==
    \/ ProcessUploadPath
    \/ ProcessArchiveCheck
    \/ ProcessArchiveExtract
    \/ ExtractArchiveCall
    \/ ProcessDirectoryList
    \/ ProcessDirectorySubmit
    \/ \E p \in DOMAIN pc : TaskStart(p)
    \/ \E p \in DOMAIN pc : MockCall(p)
    \/ \E p \in DOMAIN pc : ProcessDirectoryCollect(p)
    \/ ProcessDirectoryReturn

SpecDirect == InitDirect /\ [][NextDirect]_vars

----------------------------------------------------------------------------
(* A batch that is interrupted *)

\* KeyboardInterrupt reaches the main thread inside the `try` of
\* process_directory, before the tasks are submitted or while the results are
\* collected.
Interrupt ==
    /\ pc[0] \in {"pd_submit", "pd_collect"}
    /\ pc' = [pc EXCEPT ![0] = "pd_unwind"]
    /\ UNCHANGED <<ledgerVars, ledgerHistory, envVars, batchVars, arg, ret, outcome, finishedOrder,
                   result, threadHistory>>

\* The exception leaves `with ThreadPoolExecutor()`, whose exit waits for the
\* tasks submitted, then the `finally`, then process_archive's `with`.
InterruptUnwind ==
    /\ pc[0] = "pd_unwind"
    /\ \A p \in Tasks : pc[p] \in {"finished", "collected"}
    /\ ProcessDirectoryEnd([kind |-> "raised", value |-> "KeyboardInterrupt"])
    /\ UNCHANGED <<ledgerVars, ledgerHistory, envVars, files, results, collected, arg, ret,
                   outcome, finishedOrder, threadHistory>>

\* The album titles other batches have registered with the reporter.
AlbumLists == { <<>>, << <<"d">>, <<"q">>, <<"t", "m", "p">> >> }

InitInterrupt ==
    /\ uploadFunc = "mock"
    /\ ignoreDb = FALSE
    /\ input \in Inputs(uploadFunc)
    /\ albumsBefore \in AlbumLists
    /\ recordOrder = FALSE
    /\ entry = "process_upload_path"
    /\ sidecarPath = NoPath
    /\ recursive = FALSE
    /\ dryRun = "no"
    /\ InitCall

NextInterrupt ==
    \/ ProcessUploadPath
    \/ ProcessArchiveCheck
    \/ ProcessArchiveExtract
    \/ ProcessDirectoryList
    \/ ProcessDirectorySubmit
    \/ \E p \in DOMAIN pc : TaskStart(p)
    \/ \E p \in DOMAIN pc : MockCall(p)
    \/ \E p \in DOMAIN pc : ProcessDirectoryCollect(p)
    \/ ProcessDirectoryReturn
    \/ Interrupt
    \/ InterruptUnwind

SpecInterrupt == InitInterrupt /\ [][NextInterrupt]_vars

----------------------------------------------------------------------------
(* A batch during which the reporter is configured again *)

\* The worker counts set_max_workers is called with.
WorkerCounts == 1 .. PoolSize

\* set_max_workers(n), called by the user of the library at any moment: the
\* global instance is cleaned up (what becomes of it is of no account, it is
\* dropped) and replaced by a new ProgressManager, whose list of album titles
\* is empty.  The pool of process_directory is made by ThreadPoolExecutor()
\* and takes nothing from the manager.
SetMaxWorkers(n) ==
    /\ reporter.lock = Unlocked
    /\ reporter' = NewManager(n)
    /\ albumTitles' = <<>>
    /\ UNCHANGED <<ledgerVars, ledgerHistory, callVars, handle, echoed, temp, files, results,
                   collected, pc, arg, ret, outcome, finishedOrder, result, threadHistory>>

InitReconfigure ==
    /\ uploadFunc = "mock"
    /\ ignoreDb = FALSE
    /\ input \in Directories(AssetUniverse) \cup Archives(PlainMemberNames)
    /\ albumsBefore \in AlbumLists
    /\ recordOrder = FALSE
    /\ entry = "process_upload_path"
    /\ sidecarPath = NoPath
    /\ recursive = FALSE
    /\ dryRun = "no"
    /\ InitCall

NextReconfigure ==
    \/ ProcessUploadPath
    \/ ProcessArchiveCheck
    \/ ProcessArchiveExtract
    \/ ProcessDirectoryList
    \/ ProcessDirectorySubmit
    \/ \E p \in DOMAIN pc : TaskStart(p)
    \/ \E p \in DOMAIN pc : MockCall(p)
    \/ \E p \in DOMAIN pc : ProcessDirectoryCollect(p)
    \/ ProcessDirectoryReturn
    \/ \E n \in WorkerCounts : SetMaxWorkers(n)

SpecReconfigure == InitReconfigure /\ [][NextReconfigure]_vars

----------------------------------------------------------------------------
(* The progress reporter: ProgressManager and ProgressHandle *)

\* What the actions of the reporter leave alone.
uploadVars == <<callVars, echoed, ledgerVars, ledgerHistory, batchVars, outcome, finishedOrder,
                result, threadHistory, arg, ret>>

Filenames == {"f", "g"}

\* A thread that holds no handle.
NoHandle == [kind |-> "none"]

\* ProgressHandle(update, done) as it is returned: not entered, not left.
NewHandle(kind, task) ==
    [kind |-> kind, task |-> task, yielded |-> "nothing", advanced |-> FALSE,
     raised |-> FALSE, doneCalls |-> <<>>, propagated |-> FALSE, left |-> FALSE]

\* get_progress_callback(False, ...): a handle whose callbacks do nothing.
GetDisabledHandle(t) ==
    /\ pc[t] = "idle"
    /\ handle' = [handle EXCEPT ![t] = NewHandle("noop", 0)]
    /\ pc' = [pc EXCEPT ![t] = "have_handle"]
    /\ UNCHANGED <<reporter, uploadVars>>

\* get_callback(total, filename) is called; progress.add_task gives task ids
\* without end, the model stops at MaxTasks of them.
CallGetCallback(t, f) ==
    /\ pc[t] = "idle"
    /\ Len(reporter.tasks) < MaxTasks
    /\ handle' = [handle EXCEPT ![t] = [kind |-> "pending", filename |-> f]]
    /\ pc' = [pc EXCEPT ![t] = "gc_lock"]
    /\ UNCHANGED <<reporter, uploadVars>>

\* `with self.lock:` of the reporter may be entered when the lock is free.
ReporterLockSkipped(t, from, to) ==
    /\ pc[t] = from
    /\ pc' = [pc EXCEPT ![t] = to]
    /\ UNCHANGED <<reporter, handle, uploadVars>>
ReporterLock(t, from, to) ==
    /\ pc[t] = from
    /\ reporter.lock = Unlocked
    /\ reporter' = [reporter EXCEPT !.lock = t]
    /\ pc' = [pc EXCEPT ![t] = to]
    /\ UNCHANGED <<handle, uploadVars>>

GetCallbackLock(t) == ReporterLock(t, "gc_lock", "gc_start")

\* The test `if not self.started` of get_callback.
StartsLive == ~reporter.started

\* get_callback: self.live.start() when the reporter is not started
GetCallbackStart(t) ==
    /\ pc[t] = "gc_start"
    /\ IF StartsLive
       THEN /\ reporter' = [reporter EXCEPT !.live = TRUE, !.starts = @ + 1]
            /\ pc' = [pc EXCEPT ![t] = "gc_flag"]
       ELSE /\ pc' = [pc EXCEPT ![t] = "gc_task"]
            /\ UNCHANGED reporter
    /\ UNCHANGED <<handle, uploadVars>>

\* get_callback: self.started = True
GetCallbackFlag(t) ==
    /\ pc[t] = "gc_flag"
    /\ reporter' = [reporter EXCEPT !.started = TRUE]
    /\ pc' = [pc EXCEPT ![t] = "gc_task"]
    /\ UNCHANGED <<handle, uploadVars>>

\* get_callback: the task is added to the progress display and to the
\* registry, the lock is released and the handle is returned.
GetCallbackTask(t) ==
    /\ pc[t] = "gc_task"
    /\ LET id == Len(reporter.tasks) + 1
       IN  /\ reporter' = [reporter EXCEPT
                              !.tasks = Append(@, "running"),
                              !.registry = (handle[t].filename :> id) @@ @,
                              !.lock = Unlocked]
           /\ handle' = [handle EXCEPT ![t] = NewHandle("task", id)]
    /\ pc' = [pc EXCEPT ![t] = "have_handle"]
    /\ UNCHANGED uploadVars

\* ProgressHandle.__enter__: what `with handle as x` binds x to.
EnterValue == "update"

\* `with handle as update:` is entered.
HandleEnter(t) ==
    /\ pc[t] = "have_handle"
    /\ handle' = [handle EXCEPT ![t].yielded = EnterValue]
    /\ pc' = [pc EXCEPT ![t] = "in_body"]
    /\ UNCHANGED <<reporter, uploadVars>>

\* The body calls update(x): the bar of the task advances and the display is
\* rendered; the handle of get_progress_callback(False, ...) does nothing.
Advance(t) ==
    /\ pc[t] = "in_body"
    /\ ~handle[t].advanced
    /\ handle' = [handle EXCEPT ![t].advanced = TRUE]
    /\ UNCHANGED <<pc, reporter, uploadVars>>

\* The body of the `with` ends, normally or by raising.
BodyEnds(t, raises) ==
    /\ pc[t] = "in_body"
    /\ handle' = [handle EXCEPT ![t].raised = raises]
    /\ pc' = [pc EXCEPT ![t] = "exit"]
    /\ UNCHANGED <<reporter, uploadVars>>

\* The argument of the done call of ProgressHandle.__exit__.
ExitSuccessByOutcome(h) == ~h.raised
ExitSuccess(h) == TRUE

\* done(success) has returned to __exit__, which returns None: the scope is
\* left and an exception of the body goes on to the caller.
HandleLeft(h, success) ==
    [h EXCEPT !.doneCalls = Append(@, success), !.left = TRUE, !.propagated = h.raised]

\* ProgressHandle.__exit__: self.done(True); the callback of a task takes the
\* lock of the reporter, the other one does nothing.
HandleExit(t) ==
    /\ pc[t] = "exit"
    /\ IF handle[t].kind = "task"
       THEN /\ pc' = [pc EXCEPT ![t] = "done_lock"]
            /\ UNCHANGED handle
       ELSE /\ pc' = [pc EXCEPT ![t] = "idle"]
            /\ handle' = [handle EXCEPT ![t] = HandleLeft(@, ExitSuccess(@))]
    /\ UNCHANGED <<reporter, uploadVars>>

DoneLock(t) == ReporterLock(t, "done_lock", "done_body")

\* _callback_done(success): the description of the task tells the status.
DoneBody(t) ==
    /\ pc[t] = "done_body"
    /\ LET success == ExitSuccess(handle[t])
       IN  /\ reporter' = [reporter EXCEPT
                              !.tasks[handle[t].task] = IF success THEN "done" ELSE "failed",
                              !.lock = Unlocked]
           /\ handle' = [handle EXCEPT ![t] = HandleLeft(@, success)]
    /\ pc' = [pc EXCEPT ![t] = "idle"]
    /\ UNCHANGED uploadVars

\* cleanup() is called.
CallCleanup(t) ==
    /\ pc[t] = "idle"
    /\ pc' = [pc EXCEPT ![t] = "cl_lock"]
    /\ UNCHANGED <<reporter, handle, uploadVars>>

CleanupLock(t) == ReporterLock(t, "cl_lock", "cl_stop")

\* cleanup: `if self.started:` self.live.stop(); otherwise nothing is done
CleanupStop(t) ==
    /\ pc[t] = "cl_stop"
    /\ IF reporter.started
       THEN /\ reporter' = [reporter EXCEPT !.live = FALSE, !.stops = @ + 1]
            /\ pc' = [pc EXCEPT ![t] = "cl_flag"]
       ELSE /\ reporter' = [reporter EXCEPT !.lock = Unlocked]
            /\ pc' = [pc EXCEPT ![t] = "idle"]
    /\ UNCHANGED <<handle, uploadVars>>

\* The value cleanup gives self.started.
StartedAfterCleanupKept == TRUE
StartedAfterCleanup == FALSE

\* cleanup: self.started = False
CleanupFlag(t) ==
    /\ pc[t] = "cl_flag"
    /\ reporter' = [reporter EXCEPT !.started = StartedAfterCleanup]
    /\ pc' = [pc EXCEPT ![t] = "cl_shutdown"]
    /\ UNCHANGED <<handle, uploadVars>>

\* cleanup: self.executor.shutdown(wait=False), and the lock is released
CleanupShutdown(t) ==
    /\ pc[t] = "cl_shutdown"
    /\ reporter' = [reporter EXCEPT !.shutdown = TRUE, !.shutdowns = @ + 1,
                                    !.lock = Unlocked]
    /\ pc' = [pc EXCEPT ![t] = "idle"]
    /\ UNCHANGED <<handle, uploadVars>>

InitReporter ==
    /\ dbExists = TRUE
    /\ dbText = <<>>
    /\ lock = Unlocked
    /\ cache = {}
    /\ addReturned = {}
    /\ recorded = {}
    /\ fresh = TRUE
    /\ NoUpload
    /\ pc = [t \in Threads |-> "idle"]
    /\ arg = [t \in Threads |-> <<>>]
    /\ ret = [t \in Threads |-> [op |-> "none"]]
    /\ outcome = [t \in Threads |-> None]
    /\ calls = [t \in Threads |-> 0]
    /\ invoked = [t \in Threads |-> 0]
    /\ known = [t \in Threads |-> "unset"]
    /\ reporter = NewReporter
    /\ handle = [t \in Threads |-> NoHandle]

NextReporter ==
    \/ \E t \in Threads : GetDisabledHandle(t)
    \/ \E t \in Threads, f \in Filenames : CallGetCallback(t, f)
    \/ \E t \in Threads : GetCallbackLock(t)
    \/ \E t \in Threads : GetCallbackStart(t)
    \/ \E t \in Threads : GetCallbackFlag(t)
    \/ \E t \in Threads : GetCallbackTask(t)
    \/ \E t \in Threads : HandleEnter(t)
    \/ \E t \in Threads : Advance(t)
    \/ \E t \in Threads, raises \in BOOLEAN : BodyEnds(t, raises)
    \/ \E t \in Threads : HandleExit(t)
    \/ \E t \in Threads : DoneLock(t)
    \/ \E t \in Threads : DoneBody(t)
    \/ \E t \in Threads : CallCleanup(t)
    \/ \E t \in Threads : CleanupLock(t)
    \/ \E t \in Threads : CleanupStop(t)
    \/ \E t \in Threads : CleanupFlag(t)
    \/ \E t \in Threads : CleanupShutdown(t)

SpecReporter == InitReporter /\ [][NextReporter]_vars

----------------------------------------------------------------------------
(* A body that reports its failure with done(False) before it ends *)

\* The body calls done(False) of its handle, once; the callback of a task
\* takes the lock of the reporter, the other one does nothing.
ExplicitFail(t) ==
    /\ pc[t] = "in_body"
    /\ handle[t].doneCalls = <<>>
    /\ IF handle[t].kind = "task"
       THEN /\ pc' = [pc EXCEPT ![t] = "fail_lock"]
            /\ UNCHANGED handle
       ELSE /\ handle' = [handle EXCEPT ![t].doneCalls = Append(@, FALSE)]
            /\ UNCHANGED pc
    /\ UNCHANGED <<reporter, uploadVars>>

FailLock(t) == ReporterLock(t, "fail_lock", "fail_body")

\* _callback_done(False): the description of the task tells "Failed", and
\* the body goes on.
FailBody(t) ==
    /\ pc[t] = "fail_body"
    /\ reporter' = [reporter EXCEPT !.tasks[handle[t].task] = "failed", !.lock = Unlocked]
    /\ handle' = [handle EXCEPT ![t].doneCalls = Append(@, FALSE)]
    /\ pc' = [pc EXCEPT ![t] = "in_body"]
    /\ UNCHANGED uploadVars

NextFinal ==
    \/ \E t \in Threads : GetDisabledHandle(t)
    \/ \E t \in Threads, f \in Filenames : CallGetCallback(t, f)
    \/ \E t \in Threads : GetCallbackLock(t)
    \/ \E t \in Threads : GetCallbackStart(t)
    \/ \E t \in Threads : GetCallbackFlag(t)
    \/ \E t \in Threads : GetCallbackTask(t)
    \/ \E t \in Threads : HandleEnter(t)
    \/ \E t \in Threads : Advance(t)
    \/ \E t \in Threads : ExplicitFail(t)
    \/ \E t \in Threads : FailLock(t)
    \/ \E t \in Threads : FailBody(t)
    \/ \E t \in Threads, raises \in BOOLEAN : BodyEnds(t, raises)
    \/ \E t \in Threads : HandleExit(t)
    \/ \E t \in Threads : DoneLock(t)
    \/ \E t \in Threads : DoneBody(t)

SpecFinal == InitReporter /\ [][NextFinal]_vars

----------------------------------------------------------------------------
(* The album titles of the reporter, next to its handles *)

\* The titles the threads register.
Titles == {<<"d">>, <<" ", "q">>}

\* What an album call leaves alone.
albumFrame == <<handle, callVars, echoed, ledgerVars, ledgerHistory, temp, files, results,
                collected, outcome, finishedOrder, result, threadHistory, ret>>

\* add_album(title) is called by a thread that has no title registered.
CallAddAlbum(t, title) ==
    /\ pc[t] = "idle"
    /\ arg' = [arg EXCEPT ![t] = title]
    /\ pc' = [pc EXCEPT ![t] = "aa_lock"]
    /\ UNCHANGED <<reporter, albumTitles, albumFrame>>

AddAlbumLock(t) == ReporterLock(t, "aa_lock", "aa_body")

\* add_album: self.album_titles.append(title.strip()), the title text is
\* made again, the lock is released.
AddAlbumBody(t) ==
    /\ pc[t] = "aa_body"
    /\ albumTitles' = Append(albumTitles, Strip(arg[t]))
    /\ reporter' = [reporter EXCEPT !.lock = Unlocked]
    /\ pc' = [pc EXCEPT ![t] = "registered"]
    /\ UNCHANGED <<arg, albumFrame>>

\* remove_album(title) is called by the thread that registered the title.
CallRemoveAlbum(t) ==
    /\ pc[t] = "registered"
    /\ pc' = [pc EXCEPT ![t] = "ra_lock"]
    /\ UNCHANGED <<reporter, albumTitles, arg, albumFrame>>

RemoveAlbumLock(t) == ReporterLock(t, "ra_lock", "ra_body")

\* remove_album: self.album_titles.remove(title.strip()), the title text is
\* made again, the lock is released.
RemoveAlbumBody(t) ==
    /\ pc[t] = "ra_body"
    /\ albumTitles' = RemoveFirst(albumTitles, Strip(arg[t]))
    /\ reporter' = [reporter EXCEPT !.lock = Unlocked]
    /\ arg' = [arg EXCEPT ![t] = <<>>]
    /\ pc' = [pc EXCEPT ![t] = "idle"]
    /\ UNCHANGED albumFrame

\* The calls that change the registry, the started flag and the titles, and
\* the advance of a handle; the end of the scope of a handle is left out.
NextRender ==
    \/ \E t \in Threads, f \in Filenames : CallGetCallback(t, f)
    \/ \E t \in Threads : GetCallbackLock(t)
    \/ \E t \in Threads : GetCallbackStart(t)
    \/ \E t \in Threads : GetCallbackFlag(t)
    \/ \E t \in Threads : GetCallbackTask(t)
    \/ \E t \in Threads : HandleEnter(t)
    \/ \E t \in Threads : Advance(t)
    \/ \E t \in Threads : CallCleanup(t)
    \/ \E t \in Threads : CleanupLock(t)
    \/ \E t \in Threads : CleanupStop(t)
    \/ \E t \in Threads : CleanupFlag(t)
    \/ \E t \in Threads : CleanupShutdown(t)
    \/ \E t \in Threads, title \in Titles : CallAddAlbum(t, title)
    \/ \E t \in Threads : AddAlbumLock(t)
    \/ \E t \in Threads : AddAlbumBody(t)
    \/ \E t \in Threads : CallRemoveAlbum(t)
    \/ \E t \in Threads : RemoveAlbumLock(t)
    \/ \E t \in Threads : RemoveAlbumBody(t)

SpecRender == InitReporter /\ [][NextRender]_vars

----------------------------------------------------------------------------
(* Properties of the ledger *)

\* A line without its terminator.
LineBody(l) ==
    IF l # <<>> /\ l[Len(l)] = NL THEN SubSeq(l, 1, Len(l) - 1) ELSE l

FileLines == IF dbExists THEN SplitLines(dbText) ELSE <<>>

\* The number of lines of the backing file equal to h.
LineCount(h) == Cardinality({i \in DOMAIN FileLines : LineBody(FileLines[i]) = h})

\* The non-empty lines of the backing file, as a set.
NonEmptyLines == {LineBody(FileLines[i]) : i \in DOMAIN FileLines} \ {<<>>}

\* C1: once add_hash(h) has returned, however many times it is called, the
\* backing file holds exactly one line equal to h, contains_hash(h) evaluates to
\* true whenever the lock is free, and every contains_hash(h) call issued after
\* that return has returned true.
C1_AddIdempotent ==
    /\ \A h \in addReturned :
          /\ LineCount(h) = 1
          /\ lock = Unlocked => ContainsHashValue(h)
    /\ \A t \in Threads :
          (ret[t].op = "contains_hash" /\ ret[t].known) => ret[t].value

\* C1 witness: add_hash(h) has returned, a second add_hash(h) call has passed
\* the membership test of a cache that holds h and returned too.
C1_Witness ==
    \E t1, t2 \in Threads :
        /\ t1 # t2
        /\ ret[t1].op = "add_hash" /\ ret[t2].op = "add_hash"
        /\ Cardinality(addReturned) = 1
        /\ \A h \in addReturned : LineCount(h) = 1
        /\ Len(FileLines) = 1

\* C2: whenever every call issued by the threads has returned, no line of the
\* backing file occurs twice, every added hash is one of its lines, and a
\* ledger constructed on the file holds every added hash.
C2_ThreadSafe ==
    (\A t \in Threads : pc[t] = "idle") =>
        /\ \A i, j \in DOMAIN FileLines :
              FileLines[i] = FileLines[j] /\ LineBody(FileLines[i]) # <<>> => i = j
        /\ \A h \in addReturned : \E i \in DOMAIN FileLines : LineBody(FileLines[i]) = h
        /\ addReturned \subseteq LoadCache(TRUE, dbText)

\* C2 witness: two threads have both added hashes to a ledger whose file was
\* empty, and all their calls have returned.
C2_Witness ==
    /\ \A t \in Threads : pc[t] = "idle" /\ ret[t].op = "add_hash"
    /\ Cardinality(addReturned) >= 2
    /\ Len(FileLines) = Cardinality(addReturned)

\* C10: a ledger constructed on the file after add_hash(h) has returned holds
\* h, and a ledger that no add_hash has changed since its construction holds
\* exactly the non-empty lines of the file.
C10_RoundTrip ==
    /\ \A h \in addReturned : h \in LoadCache(TRUE, IF dbExists THEN dbText ELSE <<>>)
    /\ fresh => /\ cache = NonEmptyLines
                /\ \A h \in addReturned : ContainsHashValue(h)

\* C10 witness: a ledger constructed after two hashes were added, on a file
\* that also has a blank line.
C10_Witness ==
    /\ fresh
    /\ Cardinality(addReturned) >= 2
    /\ \E i \in DOMAIN FileLines : LineBody(FileLines[i]) = <<>>
    /\ addReturned \subseteq cache

\* C11: every contains_hash(h) call returns a value (the call has no raising
\* outcome), and the value is true exactly when h was loaded by the instance or
\* given to an add_hash call that has returned, and the backing file exists at
\* the moment of the test; with the file removed the value is false.
C11_ContainsTotal ==
    \A t \in Threads :
        ret[t].op = "contains_hash" =>
            /\ ret[t].value \in BOOLEAN
            /\ ret[t].value <=> (ret[t].recorded /\ ret[t].existed)

\* C11 witness: contains_hash returned false for a recorded hash, the backing
\* file having been removed.
C11_Witness ==
    \E t \in Threads :
        /\ ret[t].op = "contains_hash"
        /\ ret[t].recorded
        /\ ~ret[t].existed
        /\ ~ret[t].value

----------------------------------------------------------------------------
(* Properties of upload_asset and of process_upload_path *)

\* upload_func has ended in thread p.
Ended(p) == pc[p] \in {"done", "finished", "collected"}

\* What upload_func returned in thread p, None when it raised.
Returned(p) ==
    IF p # 0 THEN outcome[p]
    ELSE IF result.kind = "single" THEN result.value
    ELSE None

\* The threads in which upload_func raised.
Raised == {x[1] : x \in raisedIn}

\* The input of process_upload_path is a file that is no archive.
PlainInput == input.kind = "file" /\ input.format = "none"
\* It is a directory, or an archive that can be extracted.
BatchInput ==
    \/ input.kind = "dir"
    \/ input.kind = "file" /\ input.format \in {"zip", "tar"}

\* C3: with ignore_db false, an upload_asset call that finds the hash of its
\* file in the ledger makes no transport upload and returns the "skipped"
\* result with the name of the file and the hash; with ignore_db true, an
\* upload_asset call that has computed the hash and ended has made exactly one
\* transport upload (and never more than one on the way).
C3_DedupSkip ==
    uploadFunc = "upload_asset" =>
        \A p \in DOMAIN pc :
            /\ (~ignoreDb /\ known[p] = "yes") =>
                  /\ calls[p] = 0
                  /\ Ended(p) =>
                        Returned(p) = [status |-> "skipped", id |-> "skipped",
                                       name |-> FileOf(p).path[Len(FileOf(p).path)],
                                       hash |-> FileOf(p).data]
            /\ (ignoreDb /\ known[p] # "unset") =>
                  /\ calls[p] <= 1
                  /\ Ended(p) => calls[p] = 1

\* C3 witness: one file of a batch was skipped without a transport upload, its
\* hash being in the ledger from the start.
C3_Witness ==
    /\ uploadFunc = "upload_asset"
    /\ ~ignoreDb
    /\ \E p \in DOMAIN pc :
          /\ p # 0 /\ Ended(p) /\ known[p] = "yes"
          /\ Returned(p).status = "skipped"
          /\ calls[p] = 0

\* C4: once upload_asset has returned a result of status "created" or
\* "replaced", the hash of the file is in the cache of the ledger and is a
\* line of its backing file, which exists.
C4_SuccessRecorded ==
    uploadFunc = "upload_asset" =>
        \A p \in DOMAIN pc :
            (Ended(p) /\ Returned(p).status \in {"created", "replaced"}) =>
                /\ FileOf(p).data \in cache
                /\ dbExists
                /\ LineCount(FileOf(p).data) >= 1
                /\ lock = Unlocked => ContainsHashValue(FileOf(p).data)

\* C4 witness: with ignore_db true an upload returned "replaced" for a file
\* whose hash the ledger did not hold.
C4_Witness ==
    /\ uploadFunc = "upload_asset"
    /\ ignoreDb
    /\ \E p \in DOMAIN pc :
          /\ Ended(p) /\ known[p] = "no"
          /\ Returned(p).status = "replaced"

\* C5: when process_upload_path has ended on a directory or an extractable
\* archive, it has returned a list, every file was given to upload_func once,
\* and the list holds one result for each file whose upload did not raise,
\* namely that upload's result, and nothing for the others.
C5_BatchPartialFailure ==
    (pc[0] = "done" /\ BatchInput) =>
        /\ result.kind = "list"
        /\ \A p \in Tasks : invoked[p] = 1
        /\ Len(result.value) = Len(files) - Cardinality(Raised)
        /\ \A i \in DOMAIN result.value : result.value[i] # None
        /\ \A p \in Tasks \ Raised :
              \E i \in DOMAIN result.value : result.value[i] = outcome[p]

\* C5 witness: a batch of four files, two of which raised, returned two results.
C5_Witness ==
    /\ pc[0] = "done"
    /\ Len(files) = 4
    /\ Cardinality(Raised) = 2
    /\ result.kind = "list"
    /\ Len(result.value) = 2

C7_FailurePropagation ==
    /\ \A x \in raisedIn :
          /\ invoked[x[1]] = 1
          /\ calls[x[1]] <= 1
          /\ x[1] = 0 => (PlainInput /\ result = [kind |-> "raised", value |-> x[2]])
          /\ x[1] # 0 => (BatchInput /\ outcome[x[1]] = None)
    /\ (pc[0] = "done" /\ BatchInput) => result.kind = "list"

\* C7 witness: the transport upload of a single file raised, and
\* process_upload_path raised that error.
C7_Witness ==
    /\ PlainInput
    /\ <<0, "ImmichClientError">> \in raisedIn
    /\ result = [kind |-> "raised", value |-> "ImmichClientError"]

\* A member name that is absolute or has a ".." segment.
UnsafeName(name) == name[1] = "/" \/ DOTDOT \in Range(Split(name, "/"))

\* The positions of the safe members of the archive given.
SafeMembers == {i \in DOMAIN input.members : ~UnsafeName(input.members[i].name)}

\* The files of a tree.
FilesIn(tree) == {q \in DOMAIN tree : tree[q].kind = "file"}

\* C8: after extract_archive, for zip and tar archives alike, the extraction
\* directory holds one file for each member with a safe name and no file for
\* a member whose name is absolute or has a ".." segment.
C8_NoUnsafeEntryExtracted ==
    temp.exists => Cardinality(FilesIn(temp.tree)) = Cardinality(SafeMembers)

\* C12: the temporary directory of process_archive exists only while
\* process_archive is at work on an archive, and no longer exists once the call
\* has ended: after a normal return, after a failed extraction, and after an
\* exception raised while the extracted files were processed.
C12_ScratchRemoved ==
    /\ pc[0] = "done" => ~temp.exists
    /\ temp.exists =>
          (IsArchiveInput /\ pc[0] \in {"pd_list", "pd_submit", "pd_collect", "pd_unwind"})

\* C12 witness: the processing of the two files extracted from an archive was
\* interrupted, the call has ended by raising, and the directory is gone.
C12_Witness ==
    /\ IsArchiveInput
    /\ pc[0] = "done"
    /\ Len(files) = 2
    /\ result = [kind |-> "raised", value |-> "KeyboardInterrupt"]
    /\ ~temp.exists

\* The position of task p in an order.
Position(order, p) == CHOOSE i \in DOMAIN order : order[i] = p

\* The outcomes that are not None of the tasks of an order, in that order.
RECURSIVE KeptOutcomes(_)
KeptOutcomes(order) ==
    IF order = <<>> THEN <<>>
    ELSE IF outcome[Head(order)] # None
         THEN <<outcome[Head(order)]>> \o KeptOutcomes(Tail(order))
    ELSE KeptOutcomes(Tail(order))

\* C13 as stated: the outcomes are collected in the order in which the tasks
\* completed.
C13_CompletionOrder ==
    recordOrder =>
        \A i, j \in DOMAIN collected :
            i < j => Position(finishedOrder, collected[i]) < Position(finishedOrder, collected[j])

\* C13: the list of a batch holds the outcomes in the order in which
\* as_completed yielded the futures: a future is yielded once, after its task
\* has ended, and the order of the yields is bound neither to the order of
\* submission nor, for tasks that ended before they were waited for, to the
\* order of completion.
C13_YieldOrder ==
    recordOrder =>
        /\ \A i \in DOMAIN collected : \E j \in DOMAIN finishedOrder :
              finishedOrder[j] = collected[i]
        /\ \A i, j \in DOMAIN collected : collected[i] = collected[j] => i = j
        /\ results = KeptOutcomes(collected)
        /\ (pc[0] = "done" /\ result.kind = "list") =>
              /\ result.value = KeptOutcomes(collected)
              /\ Len(collected) = Len(files)

\* C13 witness: three tasks ended in the order of their submission and the
\* list returned holds their outcomes in the reverse order.
C13_Witness ==
    /\ recordOrder
    /\ pc[0] = "done"
    /\ finishedOrder = <<1, 2, 3>>
    /\ collected = <<3, 2, 1>>
    /\ result.kind = "list"
    /\ Len(result.value) = 3
    /\ result.value[1] # result.value[3]

\* The number of times x occurs in a list.
Count(seq, x) == Cardinality({i \in DOMAIN seq : seq[i] = x})

\* process_directory is inside its `try`.
InBatch == pc[0] \in {"pd_submit", "pd_collect", "pd_unwind"}

\* C14 as stated: once the call has ended the list of album titles is the list
\* it was before the call.
C14_ListRestored == pc[0] = "done" => albumTitles = albumsBefore

\* C14: the (stripped) name of the directory is appended to the album titles
\* before any task is submitted and stays there while the batch runs; when the
\* call has ended, by a return or by an exception, the list holds every title as
\* many times as before the call, and it is the list it was before unless the
\* same title was already registered (list.remove takes the first occurrence).
C14_AlbumBracket ==
    /\ InBatch => albumTitles = Append(albumsBefore, Strip(WorkName))
    /\ (Tasks # {} /\ pc[0] # "done") => InBatch
    /\ ~InBatch =>
          /\ Len(albumTitles) = Len(albumsBefore)
          /\ \A x \in Range(albumTitles) \cup Range(albumsBefore) :
                Count(albumTitles, x) = Count(albumsBefore, x)
          /\ Strip(WorkName) \notin Range(albumsBefore) => albumTitles = albumsBefore

\* C14 witness: a batch of a directory whose title another batch had
\* registered was interrupted and has raised; the title is registered once, as
\* before, after the titles that followed it.
C14_Witness ==
    /\ input.kind = "dir"
    /\ pc[0] = "done"
    /\ Len(files) >= 1
    /\ result = [kind |-> "raised", value |-> "KeyboardInterrupt"]
    /\ albumsBefore = << <<"d">>, <<"q">>, <<"t", "m", "p">> >>
    /\ albumTitles = << <<"q">>, <<"t", "m", "p">>, <<"d">> >>

\* C15: a call of process_upload_path on a path that does not exist ends by
\* raising FileNotFoundError, and on the way upload_func is never called, no
\* transport upload is made, the ledger (lock, cache, backing file) is left as
\* it was constructed, no album title is registered, no file is listed, no task
\* is submitted and no temporary directory is created.
C15_MissingPath ==
    input.kind = "missing" =>
        /\ pc[0] \in {"start", "done"}
        /\ pc[0] = "done" => result = [kind |-> "raised", value |-> "FileNotFoundError"]
        /\ invoked[0] = 0 /\ calls[0] = 0 /\ raisedIn = {}
        /\ fresh /\ lock = Unlocked /\ addReturned = {} /\ cache = NonEmptyLines
        /\ albumTitles = albumsBefore
        /\ files = <<>> /\ Tasks = {} /\ ~temp.exists

\* C15 witness: upload_assets (upload_func is upload_asset) on a missing path
\* has raised, with a ledger that holds a hash.
C15_Witness ==
    /\ input.kind = "missing"
    /\ uploadFunc = "upload_asset"
    /\ pc[0] = "done"
    /\ result = [kind |-> "raised", value |-> "FileNotFoundError"]
    /\ cache # {}

\* The input is an archive of a format that is not read.
UnsupportedInput == input.kind = "file" /\ input.format = "rar"

\* C16: every call that is given an archive whose extension is not recognized,
\* process_upload_path as well as process_archive and extract_archive, ends by
\* raising the unsupported-format error (ValueError), with no upload attempted.
C16_UnsupportedRaises ==
    (UnsupportedInput /\ pc[0] = "done") =>
        /\ result = [kind |-> "raised", value |-> "ValueError"]
        /\ invoked[0] = 0

\* What the functions do with such an archive: process_archive and
\* extract_archive end by raising ValueError, with no entry extracted, no
\* temporary directory left and upload_func never called; process_upload_path
\* given the same path never raises that error: it hands the file to
\* upload_func once, as a single plain file, and returns or raises what that
\* call does.
UnsupportedArchiveBehaviour ==
    UnsupportedInput =>
        /\ entry \in {"process_archive", "extract_archive"} =>
              /\ pc[0] = "done" => result = [kind |-> "raised", value |-> "ValueError"]
              /\ invoked[0] = 0 /\ Tasks = {} /\ files = <<>>
              /\ FilesIn(temp.tree) = {}
              /\ entry = "process_archive" => ~temp.exists
        /\ (entry = "process_upload_path" /\ pc[0] = "done") =>
              /\ invoked[0] = 1
              /\ result.kind \in {"single", "raised"}
              /\ result.kind = "raised" => result.value = "Exception"
              /\ ~temp.exists /\ Tasks = {}

\* process_archive called on the .rar file, which holds two members, has
\* raised ValueError.
UnsupportedArchiveDirectRaised ==
    /\ UnsupportedInput
    /\ Len(input.members) = 2
    /\ entry = "process_archive"
    /\ pc[0] = "done"
    /\ result = [kind |-> "raised", value |-> "ValueError"]

\* The threads that hold a handle.
Holders == {t \in DOMAIN handle : handle[t].kind \in {"task", "noop"}}

\* C17: a thread inside the scope of a handle was given the update function
\* of the handle; until the scope is left __exit__ has made no done call; once
\* it is left, after a body that ended normally or that raised, exactly one
\* done call was made, with success = true, and the exception of the body, if
\* any, has gone on to the caller.
C17_ScopedHandle ==
    \A t \in Holders :
        /\ pc[t] \in {"in_body", "exit", "done_lock", "done_body"} =>
              handle[t].yielded = "update"
        /\ ~handle[t].left => handle[t].doneCalls = <<>>
        /\ handle[t].left =>
              /\ handle[t].yielded = "update"
              /\ handle[t].doneCalls = <<TRUE>>
              /\ handle[t].propagated = handle[t].raised
              /\ handle[t].kind = "task" => reporter.tasks[handle[t].task] = "done"

\* C17 witness: the body of a handle of the reporter advanced the bar and
\* raised; the scope is left, done(True) was called once and the exception went
\* on.
C17_Witness ==
    \E t \in Holders :
        /\ handle[t].kind = "task"
        /\ handle[t].advanced
        /\ handle[t].raised
        /\ handle[t].left
        /\ handle[t].doneCalls = <<TRUE>>
        /\ handle[t].propagated

\* C18: whenever the lock of the reporter is free the started flag tells
\* whether the live display runs; the display was started once more than it
\* was stopped when it runs and as often when it does not (so it is started only
\* when not started, stopped only when started), the pool was shut down, without
\* waiting, once for each stop, and a get_callback that has passed its test has
\* the display running, after a cleanup as well as before.
C18_ReporterLifecycle ==
    /\ reporter.lock = Unlocked =>
          /\ reporter.started <=> reporter.live
          /\ reporter.shutdowns = reporter.stops
    /\ reporter.live <=> reporter.starts = reporter.stops + 1
    /\ ~reporter.live <=> reporter.starts = reporter.stops
    /\ reporter.shutdown <=> reporter.shutdowns > 0
    /\ \A t \in DOMAIN handle :
          pc[t] = "gc_task" => (reporter.started /\ reporter.live)

\* C18 witness: the display was started, stopped by a cleanup, and started
\* again by a get_callback that has returned its handle.
C18_Witness ==
    /\ reporter.lock = Unlocked
    /\ reporter.starts = 2
    /\ reporter.stops = 1
    /\ reporter.shutdown
    /\ reporter.started /\ reporter.live
    /\ \E t \in Holders : handle[t].kind = "task" /\ handle[t].task = 2

\* The files of a tree whose name does not start with a dot.
NonHiddenFiles(tree) ==
    {q \in DOMAIN tree : tree[q].kind = "file" /\ q[Len(q)][1] # "."}

\* C9: once process_directory has listed a directory, the files it submits are
\* the regular files of the directory, at any depth, whose name does not start
\* with a dot, each once, and it has one task for each once they are submitted.
C9_ExpansionComplete ==
    (input.kind = "dir" /\ pc[0] \notin {"start", "pd_list"}) =>
        /\ {files[i].path : i \in DOMAIN files} = NonHiddenFiles(input.tree)
        /\ Len(files) = Cardinality(NonHiddenFiles(input.tree))
        /\ pc[0] # "pd_submit" => Tasks = 1 .. Cardinality(NonHiddenFiles(input.tree))

\* C9 witness: a directory of four files to upload (one in a subdirectory, one
\* in a hidden directory, one an archive), two hidden files and two
\* directories, with its four tasks submitted.
C9_Witness ==
    /\ input.kind = "dir"
    /\ pc[0] = "pd_collect"
    /\ Cardinality(DOMAIN input.tree) = 9
    /\ Cardinality(Tasks) = 4

----------------------------------------------------------------------------
(* Claims about upload_assets *)

\* C19: upload_assets forwards sidecar_path to the per-file upload only when
\* the input path is a single plain file: the upload of a plain file receives
\* the sidecar path that was given, and when the input is a directory or an
\* archive no per-file upload of the batch receives one.
C19_SidecarScoped ==
    \A p \in DOMAIN sidecarOf :
        IF PlainInput THEN sidecarOf[p] = sidecarPath
                      ELSE sidecarOf[p] = NoPath

\* What the code does with a sidecar path: the uploads of a directory never
\* receive it, the upload of a plain file and every upload of the members of
\* an archive receive it.
SidecarBehaviour ==
    \A p \in DOMAIN sidecarOf :
        sidecarOf[p] = IF IsDir THEN NoPath ELSE sidecarPath

\* Both uploads of a two-member archive were given the sidecar path.
SidecarForwardedToArchiveMembers ==
    /\ IsArchiveInput
    /\ sidecarPath = SidecarName
    /\ Cardinality(DOMAIN sidecarOf) = 2
    /\ \A p \in DOMAIN sidecarOf : sidecarOf[p] = SidecarName

\* The uploads of a directory were made without the sidecar path given.
SidecarWithheldFromDirectory ==
    /\ IsDir
    /\ sidecarPath = SidecarName
    /\ Cardinality(DOMAIN sidecarOf) = 2
    /\ \A p \in DOMAIN sidecarOf : sidecarOf[p] = NoPath

----------------------------------------------------------------------------
(* Claims about the upload command *)

\* The upload command has ended.
CliEnded == entry = "upload" /\ pc[0] = "cli_done"

\* C20: the upload command run without --recursive on an existing file makes
\* exactly one upload attempt for that file through AssetAPI.upload_asset
\* (the hash is taken, the ledger consulted unless ignore_db is set, the
\* transport called unless the upload is skipped) and displays the id and the
\* status of that attempt; it does not end in an error before any upload step
\* has run.
C20_CliSingleUpload ==
    (CliEnded /\ ~recursive /\ PlainInput) =>
        /\ invoked[0] = 1
        /\ known[0] # "unset"
        /\ (ignoreDb \/ known[0] = "no") => calls[0] = 1
        /\ result.kind = "raised" => result.value # "TypeError"
        /\ result.kind = "single" =>
              echoed = <<"ID", result.value.id, "Status", result.value.status>>

\* What the command does without --recursive: the call of upload_asset
\* raises TypeError for the keyword show_progress, no step of upload_asset
\* runs, and the command writes the error.
CliSingleBehaviour ==
    (CliEnded /\ ~recursive) =>
        /\ invoked[0] = 0
        /\ calls[0] = 0
        /\ known[0] = "unset"
        /\ cache = recorded
        /\ result = [kind |-> "raised", value |-> "TypeError"]
        /\ echoed = <<"Error", "TypeError">>

\* The command has ended on an existing plain file without --recursive.
CliSingleEnded == CliEnded /\ ~recursive /\ PlainInput

\* With --recursive the command has displayed the outcome of the upload of a
\* plain file.
CliRecursiveDisplayed ==
    /\ CliEnded /\ recursive /\ PlainInput
    /\ result.kind = "single"
    /\ invoked[0] = 1
    /\ echoed = <<"ID", result.value.id, "Status", result.value.status>>

----------------------------------------------------------------------------
(* The order of the two steps of add_hash *)

\* The threads inside the two steps of add_hash.
Adding == {t \in DOMAIN pc : pc[t] \in {"add_cache", "add_write"}}

\* C21: add_hash of a new hash performs its two steps while holding the ledger
\* lock, first the append of the line to the backing file and then the
\* insertion into the in-memory set: the set never holds a hash the file has
\* no line for.
C21_FileBeforeCache ==
    /\ \A t \in Adding : lock = t
    /\ cache \subseteq NonEmptyLines

\* The order the code has: under the lock, the insertion into the set and then
\* the append, so that every line of the file is in the set and the one hash
\* the set can hold without a line is that of the thread about to append.
AddHashOrder ==
    /\ \A t \in Adding : lock = t
    /\ NonEmptyLines \subseteq cache
    /\ cache \ NonEmptyLines \subseteq {arg[t] : t \in {u \in Adding : pc[u] = "add_write"}}

\* A thread holds the lock between the two steps: the set has the hash, the
\* file has no line for it.
BetweenAddHashSteps ==
    \E t \in Adding :
        /\ pc[t] = "add_write"
        /\ arg[t] \in cache
        /\ LineCount(arg[t]) = 0

----------------------------------------------------------------------------
(* The life of one file of a batch *)

----------------------------------------------------------------------------
(* The pool of a batch *)

\* C23: at every moment of a batch the number of upload tasks that run is at
\* most the configured maximum of concurrent uploads; the tasks beyond it wait.
C23_BoundedByConfigured == Cardinality(Running) <= reporter.maxWorkers

\* The bound the batch has: that of the executor process_directory makes for
\* itself, whatever maximum was configured; a task that waits can start as
\* soon as fewer than that many run.
PoolBound ==
    /\ Cardinality(Running) <= PoolSize
    /\ \A p \in Tasks :
          (pc[p] = "queued" /\ Cardinality(Running) < PoolSize) => ENABLED TaskStart(p)

\* Two tasks of a batch run although a maximum of one was configured.
MoreRunThanConfigured ==
    /\ reporter.maxWorkers = 1
    /\ Cardinality(Running) = 2

----------------------------------------------------------------------------
(* The album titles when the reporter is replaced *)

\* C30: the remove_album that follows the add_album of a batch never fails:
\* while the batch runs its title is in the list of the reporter, whatever
\* set_max_workers calls are made meanwhile, and the batch never ends with the
\* ValueError of a title that is not in the list.
C30_RemoveNeverFails ==
    /\ InBatch => Strip(WorkName) \in Range(albumTitles)
    /\ pc[0] = "done" => result # [kind |-> "raised", value |-> "ValueError"]

\* What a batch gives when the reporter was replaced while it ran: every
\* upload was made and collected, and the call raises the ValueError of
\* list.remove in place of the results.
ReplacedReporterBehaviour ==
    (pc[0] = "done" /\ result = [kind |-> "raised", value |-> "ValueError"]) =>
        /\ reporter.maxWorkers \in WorkerCounts
        /\ Strip(WorkName) \notin Range(albumTitles)
        /\ \A p \in Tasks : pc[p] = "collected" /\ invoked[p] = 1

\* A batch of two uploads that both returned a result has raised ValueError.
ResultsLostToValueError ==
    /\ pc[0] = "done"
    /\ result = [kind |-> "raised", value |-> "ValueError"]
    /\ Len(results) = 2

----------------------------------------------------------------------------
(* The lock of the reporter *)

\* A step changes the task registry, the album titles or the started flag.
Mutates ==
    \/ reporter.registry' # reporter.registry
    \/ reporter.started' # reporter.started
    \/ albumTitles' # albumTitles

\* A step is the render of thread t: its handle's update is called, which
\* advances the task and calls live.update.
Renders(t) ==
    /\ handle[t].kind = "task" /\ ~handle[t].advanced
    /\ handle'[t].kind = "task" /\ handle'[t].advanced

\* A step is made by the thread that holds the lock of the reporter.
ByLockHolder == reporter.lock \in Threads /\ pc'[reporter.lock] # pc[reporter.lock]

\* C24: every change of the task registry, of the album titles and of the
\* started flag is made while the lock of the reporter is held, and the render
\* an advance of a handle makes is made inside the locked section too.
C24_AllUnderLock ==
    [][/\ Mutates => ByLockHolder
       /\ \A t \in Threads : Renders(t) => reporter.lock = t]_vars

\* C24, as the code has it: every change of the task registry, of the album
\* titles and of the started flag is a step of the thread that holds the lock
\* of the reporter; the render of an advance is made by a thread that does not
\* hold the lock.
C24_MutationsUnderLock ==
    [][/\ Mutates => ByLockHolder
       /\ \A t \in Threads : Renders(t) => reporter.lock # t]_vars

\* C24 witness: a thread is in the body of its handle and has rendered, while
\* another thread is inside the locked section of add_album.
C24_Witness ==
    \E t, u \in Threads :
        /\ pc[t] = "in_body" /\ handle[t].kind = "task" /\ handle[t].advanced
        /\ pc[u] = "aa_body" /\ reporter.lock = u

----------------------------------------------------------------------------
(* Two files of one batch with the same content *)

\* The result of task p is a fresh success.
FreshlyUploaded(p) ==
    /\ Ended(p)
    /\ outcome[p] # None
    /\ IsFreshSuccess(outcome[p].status)

\* C25: in a batch of upload_asset calls with ignore_db false, of two files
\* with the same content whose hash the ledger did not hold, at most one is
\* uploaded with success: once the upload of one has succeeded, the upload of
\* the other does not succeed too.
C25_NoDoubleUpload ==
    (uploadFunc = "upload_asset" /\ ~ignoreDb) =>
        \A p, q \in Tasks :
            (p # q /\ files[p].data = files[q].data /\ FreshlyUploaded(p)) => ~FreshlyUploaded(q)

\* Both tasks found the hash missing before either had recorded it, and both
\* uploads succeeded.
BothUploaded ==
    /\ uploadFunc = "upload_asset" /\ ~ignoreDb
    /\ pc[0] = "done"
    /\ \E p, q \in Tasks :
          /\ p # q /\ files[p].data = files[q].data
          /\ known[p] = "no" /\ known[q] = "no"
          /\ calls[p] = 1 /\ calls[q] = 1
          /\ FreshlyUploaded(p) /\ FreshlyUploaded(q)
          /\ LineCount(files[p].data) = 1

----------------------------------------------------------------------------
(* The ledger in memory and on disk *)

\* C26: whenever the lock of the ledger is free, the in-memory set is the set
\* of the lines of the backing file, also after an add_hash whose append
\* failed: contains_hash does not report the hash that failed, and a later
\* add_hash of it has written its line once it has returned.
C26_MemoryDiskAgree ==
    /\ lock = Unlocked => cache = NonEmptyLines
    /\ \A h \in addReturned : LineCount(h) = 1

\* What holds when appends can fail: every line of the file is in the set;
\* the set can hold hashes the file has no line for.
FailedAppendBehaviour == lock = Unlocked => NonEmptyLines \subseteq cache

\* An append failed, a later add_hash of the same hash has returned, and the
\* file has no line for it.
FailedHashNeverPersisted ==
    \E t, u \in Threads :
        /\ ret[t].op = "add_hash_raised"
        /\ ret[u].op = "add_hash"
        /\ ret[t].hash \in addReturned
        /\ ret[t].hash \in cache
        /\ LineCount(ret[t].hash) = 0
        /\ lock = Unlocked

----------------------------------------------------------------------------
(* The ledger and a dry run *)

\* The call has ended with the "skipped" result.
EndedSkipped ==
    /\ pc[0] = "done"
    /\ result.kind = "single"
    /\ result.value.status = "skipped"

\* C27: with a client in dry-run mode upload_asset leaves the ledger as it
\* was constructed, and the upload for real of the same file after the dry run
\* is skipped only when the ledger held its hash before the dry run.
C27_DryRunLeavesLedger ==
    /\ dryRun = "yes" => fresh
    /\ (dryRun = "was" /\ EndedSkipped) => fresh

\* What a dry run does: the made-up "created" result is taken for a fresh
\* success, so that when the dry run has ended without being skipped the
\* hash of the file is in the set and in the file.
DryRunBehaviour ==
    (dryRun = "yes" /\ pc[0] = "done" /\ result.kind = "single") =>
        /\ result.value.status \in {"skipped", "created"}
        /\ result.value.status = "created" =>
              /\ result.value.id = "dry-run-id"
              /\ input.data \in cache
              /\ LineCount(input.data) = 1

\* The upload for real was skipped, without a transport call, for a hash
\* that only the dry run had recorded.
SkippedAfterDryRun ==
    /\ dryRun = "was"
    /\ EndedSkipped
    /\ ~fresh
    /\ calls[0] = 0

----------------------------------------------------------------------------
(* The ledger and the uploads that are no fresh success *)

\* Thread p is inside add_hash.
InAddHash(p) == pc[p] \in {"add_lock", "add_check", "add_cache", "add_write"}

\* What upload_asset gave in thread p, None when it raised or has not ended.
Given(p) == IF Ended(p) THEN Returned(p) ELSE None

\* The transport answered "created" or "replaced" in thread p: upload_asset
\* is in add_hash, has returned that answer, or was left by the exception of
\* an append that failed.
FreshAnswer(p) ==
    \/ InAddHash(p)
    \/ Given(p) # None /\ Given(p).status \in {"created", "replaced"}
    \/ <<p, "OSError">> \in raisedIn

\* C28: upload_asset calls add_hash only with a "created" or "replaced" answer
\* of the transport in hand, and the ledger (set and file) is as it was
\* constructed as long as no upload_asset call got such an answer: the calls
\* that are skipped, that get another status, and in which hash_file or the
\* transport raises leave it unchanged.
C28_LedgerUnchanged ==
    uploadFunc = "upload_asset" =>
        /\ \A p \in DOMAIN pc :
              InAddHash(p) => (ret[p].op = "transport" /\ ret[p].status \in {"created", "replaced"})
        /\ (\A p \in DOMAIN pc : ~FreshAnswer(p)) => fresh

\* C28 witness: a batch has ended in which one file was skipped, one got the
\* status "duplicate" and for one the transport raised; the ledger is as it
\* was constructed.
C28_Witness ==
    /\ uploadFunc = "upload_asset"
    /\ pc[0] = "done"
    /\ fresh
    /\ \E p, q, r \in Tasks :
          /\ outcome[p] # None /\ outcome[p].status = "skipped"
          /\ outcome[q] # None /\ outcome[q].status = "duplicate"
          /\ \E e \in {"ImmichClientError", "FileNotFoundError"} : <<r, e>> \in raisedIn

----------------------------------------------------------------------------
(* The status of a task after done(False) *)

\* Task i of the display is shown as failed now and as done after the step.
FailedTurnsDone(i) ==
    /\ reporter.tasks[i] = "failed"
    /\ i \in DOMAIN reporter'.tasks
    /\ reporter'.tasks[i] = "done"

\* C29: a task that is shown as failed is never shown as done by a later
\* step; leaving the scope of the handle after done(False) in the body keeps
\* the failed status.
C29_FailedIsFinal == [][\A i \in DOMAIN reporter.tasks : ~FailedTurnsDone(i)]_vars

\* What the code does: every task whose handle has been left is shown as
\* done, whatever the body reported.
ExitBehaviour ==
    \A t \in Threads :
        (handle[t].kind = "task" /\ handle[t].left) => reporter.tasks[handle[t].task] = "done"

\* The body called done(False) and raised, the scope was left and the task
\* is shown as done.
FailedShownAsDone ==
    \E t \in Threads :
        /\ handle[t].kind = "task"
        /\ handle[t].raised
        /\ handle[t].doneCalls = <<FALSE, TRUE>>
        /\ reporter.tasks[handle[t].task] = "done"
====
